---- MODULE Spec2Model ----
(***************************************************************************)
(* Voxel Launcher: the provisioning / launch engine of src/minecraft.js    *)
(* and its host handler (main.js, kept in src/README.md).                  *)
(*                                                                         *)
(* The module holds several specifications over one set of variables.     *)
(* Each specification draws the inputs of one operation from bounded sets  *)
(* in its initial predicate and applies the operation in its actions; the  *)
(* variables of the other operations stay at their idle values.            *)
(*   SpecRules : shouldUseLibrary on one library                           *)
(*   SpecJava  : runtime discovery and selection of one launch             *)
(*   SpecAssets : asset synchronization over a nearly complete cache       *)
(*   SpecFetch : library fetch followed by asset synchronization           *)
(*   SpecClassPath : buildClassPath over one descriptor and one cache      *)
(*   SpecArgs  : the game arguments of one descriptor and one account      *)
(*   Spec      : one launch from the request to the exit of the game       *)
(***************************************************************************)
EXTENDS Integers, Sequences, FiniteSets, TLC

VARIABLES
    platform,   \* os.platform() of the running process
    homedir,    \* os.homedir() of the running process
    library,    \* SpecRules: the library entry handed to shouldUseLibrary
    verdict,    \* SpecRules: <<>>, or <<b>> once shouldUseLibrary returned b
    pc,         \* the launch's position in launchMinecraft
    result,     \* settlement of the promise launchMinecraft returned
    requiredJavaVersion,  \* getRequiredJavaVersion(versionData)
    probe,          \* machine: executable path -> major its -version reports
    builtInFolders, \* machine: bundled java/<platform> folders, readdir order
    systemOrder,    \* machine: system candidate paths in the order tried
    availableJava,  \* [...builtInJava, ...systemJava]
    uniqueJava,     \* availableJava without duplicate paths
    selectedJava,   \* selectBestJavaForVersion's return value
    libraries,      \* versionData.libraries
    hasAssetIndex,  \* versionData.assetIndex is present
    objects,        \* the asset index's objects: the hash of each entry
    minecraftArguments, \* versionData.minecraftArguments, as its words
    disk,           \* the cache tree: file -> "absent", "empty", "wrong", "full"
    issued,         \* files the last step sent a network request for
    requested,      \* files some step of this launch sent a request for
    warnings,       \* non-fatal failures logged so far
    libPos,         \* downloadLibraries: index of the library being fetched
    libStage,       \* downloadLibraries: "main" artifact or "native" classifier
    srcIdx,         \* downloadLibraries: source tried next (0 = explicit URL)
    assetStage,     \* downloadAssets: "index" or "batches"
    batchStart,     \* downloadAssets: i of the batch loop
    tasks,          \* downloadAssets: the async task of each object
    completed,      \* downloadAssets: completed
    failed,         \* downloadAssets: failed
    nativesDir,     \* what the natives directory holds
    classPath,      \* buildClassPath's entries, before the join
    account,        \* getSelectedAccount()'s return value
    gameArgs,       \* gameArgs of launchMinecraft
    exitCode,       \* <<>>, or <<code>> once the child's close event fired
    child,          \* the spawned process: "none", "running", "failed", "closed"
    requestVersion, \* host: the version of the launch-minecraft request
    requestRam,     \* host: the ramAllocation of the launch-minecraft request
    prefsRam,       \* host: ramAllocation of the stored preferences
    sent,           \* host: the lifecycle signals sent to event.sender
    reply,          \* host: <<>>, or <<the value the handler returned>>
    earlier,        \* host: how far the launch of an earlier request has
                    \* come: "none", "downloading", "extracted", "running",
                    \* "closed"
    onProgress,     \* launchMinecraft: a progress callback is set
    ramAllocation,  \* launchMinecraft: ramAllocation after lines 925-947
    version,        \* getVersionData: the resolved version id, "" before
    manifestRequests,   \* requests sent for the version manifest
    descriptorRequests, \* requests sent for a version descriptor
    manifest,           \* <<>> or <<the manifest the server delivered>>
    versionData,        \* the descriptor's javaVersion field and its id
    progress,       \* <<>>, or <<v>>: the last value the callback received
    reported,       \* the values the last step delivered to the callback
    jvmArgs         \* the argument vector handed to spawn

ruleVars == <<library, verdict>>
javaEnv == <<probe, builtInFolders, systemOrder>>
javaVars == <<requiredJavaVersion, probe, builtInFolders, systemOrder,
              availableJava, uniqueJava, selectedJava>>
descriptorVars == <<libraries, hasAssetIndex, objects, minecraftArguments>>
procVars == <<exitCode, child>>
hostVars == <<requestVersion, requestRam, prefsRam, sent, reply, earlier>>
callVars == <<onProgress, ramAllocation>>
manifestVars == <<version, manifestRequests, descriptorRequests, manifest,
                  versionData>>
launchVars == <<nativesDir, classPath, account, gameArgs, exitCode, child>>
libVars == <<libPos, libStage, srcIdx>>
assetVars == <<assetStage, batchStart, tasks, completed, failed>>
fetchVars == <<disk, issued, requested, warnings, libPos, libStage, srcIdx,
               assetStage, batchStart, tasks, completed, failed>>
vars == <<platform, homedir, library, verdict, pc, result, requiredJavaVersion, probe,
          builtInFolders, systemOrder, availableJava, uniqueJava, selectedJava,
          libraries, hasAssetIndex, objects, minecraftArguments, disk, issued,
          requested, warnings, libPos, libStage, srcIdx, assetStage,
          batchStart, tasks, completed, failed, nativesDir, classPath,
          account, gameArgs, exitCode, child, requestVersion, requestRam,
          prefsRam, sent, reply, earlier, onProgress, ramAllocation, version,
          manifestRequests, descriptorRequests, manifest, versionData,
          progress, reported, jvmArgs>>

(***************************************************************************)
(* Bounds                                                                  *)
(***************************************************************************)
\* longest rule list of a library
MaxRules == 3
\* most bundled runtime folders
MaxBuiltIn == 1
\* most system candidate paths tried
MaxSystem == 2
\* most libraries of a descriptor in the specifications that run the fetch
MaxFetchLibs == 1
\* most libraries of a descriptor in the specification of the library fetch
MaxPhaseLibs == 2
\* most objects of an asset index
MaxAssets == 20
\* most asset objects missing from the cache when a synchronization starts
MaxMissing == 2
\* most objects of the asset index in the specifications that run the whole
\* fetch
MaxFetchAssets == 1
\* most libraries of a descriptor handed to buildClassPath on its own
MaxClassPathLibs == 2
\* most words of a legacy argument template
MaxTemplate == 3
\* most entries of an asset index whose entries may share a hash
MaxSharedAssets == 2

(***************************************************************************)
(* Platform and rule vocabulary                                            *)
(***************************************************************************)
\* rule.os absent
NoOs == "none"

\* rule lists: a rule has an action and, unless rule.os is absent, one of the
\* three os names the code compares with or "other", which stands for an os
\* object whose name is none of them (another name, or only arch/version)
RuleLists ==
    UNION {[1..n -> [action : {"allow", "disallow"},
                     os : {"windows", "osx", "linux", "other", NoOs}]] :
              n \in 0..MaxRules}

\* the rule part of a library entry: hasRules is "library.rules is present"
RuleLibraries == {[hasRules |-> FALSE, rules |-> <<>>]}
                   \cup {[hasRules |-> TRUE, rules |-> rs] : rs \in RuleLists}

(***************************************************************************)
(* shouldUseLibrary (src/minecraft.js 141-167)                             *)
(***************************************************************************)
\* lines 151-153 / 160-162: the three name-and-platform comparisons
osNameMatches(name, osName) ==
    \/ name = "windows" /\ osName = "win32"
    \/ name = "osx" /\ osName = "darwin"
    \/ name = "linux" /\ osName = "linux"

\* one iteration of the loop at line 145: the new value of shouldUse
applyRule(shouldUse, rule, osName) ==
    IF rule.action = "allow"
    THEN IF rule.os = NoOs THEN TRUE
         ELSE IF osNameMatches(rule.os, osName) THEN TRUE ELSE shouldUse
    ELSE IF rule.action = "disallow"
    THEN IF rule.os = NoOs THEN FALSE
         ELSE IF osNameMatches(rule.os, osName) THEN FALSE ELSE shouldUse
    ELSE shouldUse

RECURSIVE rulesLoop(_, _, _, _)
rulesLoop(rules, i, shouldUse, osName) ==
    IF i > Len(rules) THEN shouldUse
    ELSE rulesLoop(rules, i + 1, applyRule(shouldUse, rules[i], osName), osName)

\* a plausible bug: the first applicable rule decides (first-match)
RECURSIVE firstMatchLoop(_, _, _)
firstMatchLoop(rules, i, osName) ==
    IF i > Len(rules) THEN FALSE
    ELSE IF rules[i].os = NoOs \/ osNameMatches(rules[i].os, osName)
    THEN rules[i].action = "allow"
    ELSE firstMatchLoop(rules, i + 1, osName)

shouldUseLibraryFirstMatch(lib) ==
    IF ~lib.hasRules THEN TRUE ELSE firstMatchLoop(lib.rules, 1, platform)

\* a plausible bug: the running flag starts at true instead of false
shouldUseLibraryDefaultTrue(lib) ==
    IF ~lib.hasRules THEN TRUE ELSE rulesLoop(lib.rules, 1, TRUE, platform)

shouldUseLibrary(lib) ==
    IF ~lib.hasRules THEN TRUE ELSE rulesLoop(lib.rules, 1, FALSE, platform)

\* no library under evaluation
RulesIdle ==
    /\ library = [hasRules |-> FALSE, rules |-> <<>>]
    /\ verdict = <<>>

(***************************************************************************)
(* The promise launchMinecraft returns (src/minecraft.js 949, 1006-1028)   *)
(***************************************************************************)
\* not settled yet
Pending ==
    [state |-> "pending", error |-> "-", required |-> 0, available |-> <<>>,
     value |-> <<>>]

\* reject(new Error(...)): the error, and what its message enumerates
Rejected(err, req, avail) ==
    [state |-> "rejected", error |-> err, required |-> req, available |-> avail,
     value |-> <<>>]

\* resolve(v): value is <<v>>, and <<>> for a resolve() without an argument
Resolved(value) ==
    [state |-> "resolved", error |-> "-", required |-> 0, available |-> <<>>,
     value |-> value]

\* a plausible bug: the last call of resolve or reject wins
settleOverwrites(current, outcome) == outcome

\* what resolve and reject do to a promise: the first call settles it, a
\* later call has no effect
settle(current, outcome) ==
    IF current.state = "pending" THEN outcome ELSE current

(***************************************************************************)
(* Argument values and the prologue of launchMinecraft (925-947)           *)
(***************************************************************************)
\* a JavaScript value: undefined (or null), a number, a string, a function
Undefined == [t |-> "undefined", n |-> 0, s |-> ""]
Num(n) == [t |-> "number", n |-> n, s |-> ""]
Str(s) == [t |-> "string", n |-> 0, s |-> s]
Fn == [t |-> "function", n |-> 0, s |-> ""]
\* an object; n is its majorVersion, 0 when it has none
Obj(n) == [t |-> "object", n |-> n, s |-> ""]

\* the value counts as true in a condition
truthy(v) ==
    CASE v.t = "number" -> v.n # 0
      [] v.t = "string" -> v.s # ""
      [] v.t = "function" -> TRUE
      [] v.t = "object" -> TRUE
      [] OTHER -> FALSE

\* a || b
or(a, b) == IF truthy(a) THEN a ELSE b

\* the default of lines 931, 935, 938, 946
DefaultRam == 2048

\* the version id of the launches that start after manifest resolution
VersionId == "1.8.9"

\* lines 925-947: the five parameters after the backward-compatibility
\* shuffle and the defaults
launchArguments(versionId, acct, username, ram, callback) ==
    LET a == IF versionId.t = "function"
             THEN [versionId |-> Undefined, username |-> Str("Player"),
                   ram |-> Num(DefaultRam), callback |-> versionId]
             ELSE IF username.t = "function"
             THEN [versionId |-> versionId, username |-> Str("Player"),
                   ram |-> or(ram, Num(DefaultRam)), callback |-> username]
             ELSE IF ram.t = "function"
             THEN [versionId |-> versionId, username |-> username,
                   ram |-> Num(DefaultRam), callback |-> ram]
             ELSE [versionId |-> versionId, username |-> username,
                   ram |-> ram, callback |-> callback]
    IN  [versionId |-> a.versionId,
         username |-> IF truthy(a.username) THEN a.username
                      ELSE Str("Player"),
         ramAllocation |-> IF ~truthy(a.ram) \/ a.ram.t = "function"
                           THEN Num(DefaultRam) ELSE a.ram,
         onProgress |-> a.callback]

\* no descriptor has arrived
NoVersionData == [javaVersion |-> Undefined, id |-> <<>>]

\* a launch of VersionId that was called without a request of the host,
\* without a callback and with the default memory, and has its descriptor
HostIdle ==
    /\ requestVersion = Undefined
    /\ requestRam = Undefined
    /\ prefsRam = Num(DefaultRam)
    /\ sent = <<"game-started">>
    /\ reply = <<>>
    /\ earlier = "none"
    /\ onProgress = FALSE
    /\ ramAllocation = Num(DefaultRam)
    /\ version = VersionId
    /\ manifestRequests = 1
    /\ descriptorRequests = 1
    /\ manifest = <<>>
    /\ versionData = NoVersionData
    /\ progress = <<>>
    /\ reported = <<>>
    /\ jvmArgs = <<>>

\* a step that delivers nothing to the progress callback
NoProgress ==
    /\ reported' = <<>>
    /\ UNCHANGED progress

\* a step that delivers the values vs, in this order, when a callback is set
Progress(vs) ==
    /\ reported' = IF onProgress THEN vs ELSE <<>>
    /\ progress' = IF onProgress /\ vs # <<>> THEN <<vs[Len(vs)]>>
                   ELSE progress

\* a progress value num / den, and one without a fraction
Frac(num, den) == <<num, den>>
Whole(v) == <<v, 1>>

\* the variables of the launch steps after the fetch, before any of them ran
LaunchIdle ==
    /\ nativesDir = {}
    /\ classPath = <<>>
    /\ account = [type |-> "none", username |-> "-", uuid |-> "-",
                  accessToken |-> "-"]
    /\ gameArgs = <<>>
    /\ exitCode = <<>>
    /\ child = "none"
    /\ HostIdle

(***************************************************************************)
(* Runtime discovery (src/minecraft.js 474-786, 994-1003)                  *)
(***************************************************************************)
\* executable paths of the machine
JavaPaths == {"javaA", "javaB", "javaC"}

\* majors a runtime reports or a bundled folder name carries
Majors == {8, 17, 21}

\* getJavaVersion returning null (lines 492-495)
ProbeFailed == 0

\* selectBestJavaForVersion returning null
NoJava == [path |-> "-", version |-> 0, origin |-> "-"]

\* getJavaVersion (lines 474-496): the major parsed from the probe's output
getJavaVersion(javaPath) == probe[javaPath]

\* findBuiltInJavaInstallations (lines 733-777): one entry per bundled folder,
\* in readdir order, its version taken from the folder name (zulu<N>)
findBuiltInJavaInstallations ==
    [i \in 1..Len(builtInFolders) |->
        [path |-> builtInFolders[i].path,
         version |-> builtInFolders[i].zulu,
         origin |-> "builtIn"]]

PathsOf(javas) == {javas[i].path : i \in 1..Len(javas)}

\* addJavaIfValid (lines 504-512) over the candidates in the order tried
RECURSIVE addJavaLoop(_, _, _)
addJavaLoop(order, i, javaInstallations) ==
    IF i > Len(order) THEN javaInstallations
    ELSE IF order[i] \in PathsOf(javaInstallations)
    THEN addJavaLoop(order, i + 1, javaInstallations)
    ELSE IF getJavaVersion(order[i]) # ProbeFailed
    THEN addJavaLoop(order, i + 1,
            Append(javaInstallations,
                   [path |-> order[i], version |-> getJavaVersion(order[i]),
                    origin |-> "system"]))
    ELSE addJavaLoop(order, i + 1, javaInstallations)

\* Array.prototype.sort with (a, b) => b.version - a.version (line 659):
\* stable, highest version first
insertByVersionDesc(sorted, j) ==
    LET before == SelectSeq(sorted, LAMBDA x : x.version >= j.version)
        after  == SelectSeq(sorted, LAMBDA x : x.version < j.version)
    IN  before \o <<j>> \o after

RECURSIVE sortByVersionDesc(_, _, _)
sortByVersionDesc(javas, i, sorted) ==
    IF i > Len(javas) THEN sorted
    ELSE sortByVersionDesc(javas, i + 1, insertByVersionDesc(sorted, javas[i]))

\* findAllJavaInstallations (lines 499-660)
findAllJavaInstallations ==
    sortByVersionDesc(addJavaLoop(systemOrder, 1, <<>>), 1, <<>>)

\* Array.from(new Map(availableJava.map(j => [j.path, j])).values())
\* (lines 1001-1003): a key keeps the position of its first entry and the
\* value of its last
RECURSIVE mapByPath(_, _, _)
\* a plausible bug: the concatenated list is handed on as it is
mapByPathKeepsAll(javas, i, acc) == javas

mapByPath(javas, i, acc) ==
    IF i > Len(javas) THEN acc
    ELSE IF javas[i].path \in PathsOf(acc)
    THEN mapByPath(javas, i + 1,
            [k \in 1..Len(acc) |->
                IF acc[k].path = javas[i].path THEN javas[i] ELSE acc[k]])
    ELSE mapByPath(javas, i + 1, Append(acc, javas[i]))

\* the versions the incompatible-runtime message lists (line 1021)
versionsOf(javas) == [i \in 1..Len(javas) |-> javas[i].version]

\* a plausible bug: the message lists the smallest version first
versionsAscending(javas) ==
    LET desc == sortByVersionDesc(javas, 1, <<>>)
    IN  [i \in 1..Len(desc) |-> desc[Len(desc) + 1 - i].version]

(***************************************************************************)
(* selectBestJavaForVersion (src/minecraft.js 835-857)                     *)
(***************************************************************************)
\* reduce (lines 850-852): the current entry replaces the closest one only
\* when its version is strictly smaller
RECURSIVE reduceClosest(_, _, _)
\* a plausible bug: the comparison is <=, so the last of the entries with the
\* smallest version is kept
reduceClosestLast(javas, i, closest) ==
    LET least == CHOOSE k \in 1..Len(javas) :
                    /\ \A x \in 1..Len(javas) : javas[k].version <= javas[x].version
                    /\ \A x \in (k + 1)..Len(javas) : javas[x].version # javas[k].version
    IN  javas[least]

reduceClosest(javas, i, closest) ==
    IF i > Len(javas) THEN closest
    ELSE reduceClosest(javas, i + 1,
            IF javas[i].version < closest.version THEN javas[i] ELSE closest)

\* a plausible bug: the first compatible entry is returned, not the smallest
selectFirstCompatible(required, javas) ==
    LET compatibleJava == SelectSeq(javas, LAMBDA j : j.version >= required)
    IN  IF compatibleJava = <<>> THEN NoJava ELSE compatibleJava[1]

selectBestJavaForVersion(required, javas) ==
    LET exact == SelectSeq(javas, LAMBDA j : j.version = required)
        compatibleJava == SelectSeq(javas, LAMBDA j : j.version >= required)
    IN  IF Len(javas) = 0 THEN NoJava
        ELSE IF exact # <<>> THEN exact[1]
        ELSE IF Len(compatibleJava) > 0
        THEN reduceClosest(compatibleJava, 2, compatibleJava[1])
        ELSE NoJava

(***************************************************************************)
(* getRequiredJavaVersion (src/minecraft.js 788-833)                       *)
(***************************************************************************)
\* the decimal digits
Digits == <<"0", "1", "2", "3", "4", "5", "6", "7", "8", "9">>

isDigit(c) == \E n \in 1..10 : Digits[n] = c

\* parseInt of the digits (\d+) that start at position i of the id
RECURSIVE digitsFrom(_, _, _)
digitsFrom(id, i, acc) ==
    IF i <= Len(id) /\ isDigit(id[i])
    THEN digitsFrom(id, i + 1, 10 * acc + (CHOOSE n \in 1..10 : Digits[n] = id[i]) - 1)
    ELSE acc

\* id starts with the characters of prefix
startsWith(id, prefix) ==
    /\ Len(id) >= Len(prefix)
    /\ \A i \in 1..Len(prefix) : id[i] = prefix[i]

\* line 802: /^(\d{2})w/
yearMatch(id) ==
    Len(id) >= 3 /\ isDigit(id[1]) /\ isDigit(id[2]) /\ id[3] = "w"

\* line 812: /^1\.(\d+)/
versionMatch(id) ==
    startsWith(id, <<"1", ".">>) /\ Len(id) >= 3 /\ isDigit(id[3])

\* line 818: /^1\.20\.(\d+)/
patchMatch(id) ==
    startsWith(id, <<"1", ".", "2", "0", ".">>)
      /\ Len(id) >= 6 /\ isDigit(id[6])

\* lines 788-833: vd.javaVersion is the descriptor's javaVersion field, vd.id
\* the characters of its id
getRequiredJavaVersion(vd) ==
    IF truthy(vd.javaVersion)
    THEN IF vd.javaVersion.t = "object"
         THEN IF vd.javaVersion.n # 0 THEN vd.javaVersion.n ELSE 21
         ELSE vd.javaVersion.n
    ELSE IF \E i \in 1..Len(vd.id) : vd.id[i] = "w"
    THEN IF yearMatch(vd.id) /\ digitsFrom(vd.id, 1, 0) >= 24 THEN 21
         ELSE IF yearMatch(vd.id) /\ digitsFrom(vd.id, 1, 0) >= 21 THEN 17
         ELSE 21
    ELSE IF versionMatch(vd.id)
    THEN LET minorVersion == digitsFrom(vd.id, 3, 0) IN
         IF minorVersion >= 20
         THEN IF patchMatch(vd.id) /\ digitsFrom(vd.id, 6, 0) >= 5
              THEN 21 ELSE 17
         ELSE IF minorVersion >= 18 THEN 17
         ELSE IF minorVersion >= 17 THEN 16
         ELSE 8
    ELSE 8

(***************************************************************************)
(* The discovery and selection steps of launchMinecraft (994-1029)         *)
(***************************************************************************)
JavaIdle ==
    /\ requiredJavaVersion = 0
    /\ probe = [p \in JavaPaths |-> ProbeFailed]
    /\ builtInFolders = <<>>
    /\ systemOrder = <<>>
    /\ availableJava = <<>>
    /\ uniqueJava = <<>>
    /\ selectedJava = NoJava

\* sequences of at most n elements of S
SeqsUpTo(S, n) == UNION {[1..k -> S] : k \in 0..n}

JavaEnvInit ==
    /\ probe \in [JavaPaths -> Majors \cup {ProbeFailed}]
    /\ builtInFolders \in
         {f \in SeqsUpTo([path : JavaPaths, zulu : Majors], MaxBuiltIn) :
             \A i, k \in 1..Len(f) : i # k => f[i].path # f[k].path}
    /\ systemOrder \in SeqsUpTo(JavaPaths, MaxSystem)
    /\ availableJava = <<>>
    /\ uniqueJava = <<>>
    /\ selectedJava = NoJava

\* lines 994-1012
DiscoverRuntime ==
    /\ pc = "DiscoveringRuntime"
    /\ LET builtInJava == findBuiltInJavaInstallations
           systemJava == findAllJavaInstallations
           all == builtInJava \o systemJava
           unique == mapByPath(all, 1, <<>>)
       IN  /\ availableJava' = all
           /\ uniqueJava' = unique
           /\ IF Len(unique) = 0
              THEN /\ result' = Rejected("NoJavaFound", requiredJavaVersion, <<>>)
                   /\ pc' = "Error"
              ELSE /\ pc' = "SelectingRuntime"
                   /\ UNCHANGED result
    /\ NoProgress
    /\ UNCHANGED <<platform, homedir, hostVars, callVars, manifestVars, jvmArgs, launchVars, ruleVars, requiredJavaVersion, javaEnv, selectedJava,
                   descriptorVars, fetchVars>>

\* lines 1017-1031
SelectRuntime ==
    /\ pc = "SelectingRuntime"
    /\ selectedJava' = selectBestJavaForVersion(requiredJavaVersion, uniqueJava)
    /\ IF selectedJava' = NoJava
       THEN /\ result' = Rejected("NoCompatibleJava", requiredJavaVersion,
                                  versionsOf(availableJava))
            /\ pc' = "Error"
       ELSE /\ pc' = "BuildingClassPath"
            /\ UNCHANGED result
    /\ NoProgress
    /\ UNCHANGED <<platform, homedir, hostVars, callVars, manifestVars, jvmArgs, launchVars, ruleVars, requiredJavaVersion, javaEnv,
                   availableJava, uniqueJava, descriptorVars, fetchVars>>

(***************************************************************************)
(* The descriptor and the cache tree                                       *)
(***************************************************************************)
\* a library entry: rules as above; artifact is "downloads.artifact is
\* present"; classifiers is "downloads.classifiers is present"; natives is the
\* set of OS names library.natives maps to a classifier that exists
LibraryEntries ==
    [hasRules : BOOLEAN, rules : RuleLists, artifact : BOOLEAN,
     classifiers : BOOLEAN, natives : SUBSET {"windows", "osx", "linux"}]

\* files of the cache tree: versions/<id>/<id>.jar, the main file and the
\* native classifier file of library n, assets/indexes/<id>.json, and
\* assets/objects/<prefix>/<hash> of hash n
JarFile == [kind |-> "jar", n |-> 0]
IndexFile == [kind |-> "index", n |-> 0]
LibFile(i) == [kind |-> "lib", n |-> i]
NativeFile(i) == [kind |-> "nat", n |-> i]
ObjectFile(h) == [kind |-> "obj", n |-> h]

\* the cache tree has room for the libraries and objects of every descriptor
\* the specifications draw
Files ==
    {JarFile, IndexFile}
      \cup {LibFile(i) : i \in 1..(MaxFetchLibs + MaxClassPathLibs)}
      \cup {NativeFile(i) : i \in 1..(MaxFetchLibs + MaxClassPathLibs)}
      \cup {ObjectFile(h) : h \in 1..(MaxAssets + 1)}

\* "absent": no file; "empty": size 0; "wrong": size > 0 that is not the
\* declared size (or, for the index, not parseable); "full": the declared
\* content
FileStates == {"absent", "empty", "wrong", "full"}

DescriptorIdle ==
    /\ libraries = <<>>
    /\ hasAssetIndex = FALSE
    /\ objects = <<>>
    /\ minecraftArguments = <<>>

(***************************************************************************)
(* downloadFile (src/minecraft.js 62-126)                                  *)
(***************************************************************************)
\* what a request can do: deliver the declared content, deliver a body of
\* another non-zero length, deliver an empty body, or fail (status other
\* than 200, network or stream error)
NetOutcomes == {"ok", "short", "empty", "error"}

\* a plausible bug: no early return, every call sends its request
downloadFileNeverSkips(d, f) == FALSE

\* a plausible bug: the early return is taken only for a file of declared size
downloadFileSkipsOnlyFull(d, f) == d[f] = "full"

\* lines 71-77: the file exists with size > 0, so no request is issued
downloadFileSkips(d, f) == d[f] \in {"wrong", "full"}

\* lines 79-124: the file after a request with the given outcome; a failed
\* request unlinks the file
fileAfterRequest(outcome) ==
    CASE outcome = "ok" -> "full"
      [] outcome = "short" -> "wrong"
      [] outcome = "empty" -> "empty"
      [] OTHER -> "absent"

\* lines 92-98: the values the data events of one download deliver, as percentages of the
\* file: none when the response has no content-length, else increasing
\* values that end at 100 when the body is complete; a request that fails
\* does so after half of the body has arrived, or before any
chunksOf(outcome) ==
    CASE outcome \in {"ok", "short"} -> {<<>>, <<100>>, <<25, 100>>}
      [] outcome = "error" -> {<<>>, <<50>>}
      [] OTHER -> {<<>>}

\* the promise resolves (lines 74, 108) rather than rejects (101, 114, 123)
downloadFileResolves(d, f, outcome) ==
    downloadFileSkips(d, f) \/ outcome # "error"

\* a plausible bug: a failed request clears the cache tree
diskAfterDownloadFileRollsBack(d, f, outcome) ==
    IF downloadFileSkips(d, f) THEN d
    ELSE IF outcome = "error" THEN [g \in Files |-> "absent"]
    ELSE [d EXCEPT ![f] = fileAfterRequest(outcome)]

\* lines 66-124: the cache tree after one downloadFile call
diskAfterDownloadFile(d, f, outcome) ==
    IF downloadFileSkips(d, f) THEN d
    ELSE [d EXCEPT ![f] = fileAfterRequest(outcome)]

\* the request of one downloadFile call, if it sends one
requestsOfDownloadFile(d, f) == IF downloadFileSkips(d, f) THEN {} ELSE {f}

(***************************************************************************)
(* downloadLibraries (src/minecraft.js 169-292)                            *)
(***************************************************************************)
\* MAVEN_REPOS.length (lines 179-185)
NumRepos == 5

\* the OS name under which library.natives is looked up (lines 259-266)
nativesNameOf(osName) ==
    CASE osName = "win32" -> "windows"
      [] osName = "darwin" -> "osx"
      [] osName = "linux" -> "linux"
      [] OTHER -> "-"

\* lines 255-269: a native classifier is resolved for the current platform
hasNativeClassifier(lib) ==
    lib.classifiers /\ nativesNameOf(platform) \in lib.natives

\* libraries.filter(shouldUseLibrary) (line 172): the next eligible index
\* at or after i, Len + 1 when there is none
RECURSIVE nextEligible(_, _)
nextEligible(libs, i) ==
    IF i > Len(libs) THEN Len(libs) + 1
    ELSE IF shouldUseLibrary(libs[i]) THEN i
    ELSE nextEligible(libs, i + 1)

\* a plausible bug: the explicit URL is never tried
firstSourceMirror(libs, i) == 1

\* lines 193-202, 208, 225: the explicit URL (source 0) when
\* downloads.artifact is present, else the first mirror
firstSource(libs, i) ==
    IF i <= Len(libs) /\ libs[i].artifact THEN 0 ELSE 1

LibWarning(i) == <<"library", i>>
AssetsWarning == <<"assets", 0>>

FetchIdle ==
    /\ disk = [f \in Files |-> "absent"]
    /\ issued = {}
    /\ requested = {}
    /\ warnings = {}
    /\ libPos = 0
    /\ libStage = "main"
    /\ srcIdx = 0
    /\ assetStage = "index"
    /\ batchStart = 1
    /\ tasks = <<>>
    /\ completed = 0
    /\ failed = 0

\* lines 172-174: total, and completed when the loop is at index pos
totalLibs ==
    Cardinality({i \in 1..Len(libraries) : shouldUseLibrary(libraries[i])})

completedLibs(pos) ==
    Cardinality({i \in 1..(pos - 1) : shouldUseLibrary(libraries[i])})

\* lines 213, 233 and 977: 35 + ((completed / total) * 100 + progress /
\* total) * 0.5
libraryProgress(done, p) ==
    Frac(70 * totalLibs + 100 * done + p, 2 * totalLibs)

\* a plausible bug: a library that no source delivers ends the loop
LibraryTrySourceAborts ==
    /\ pc = "FetchingLibraries"
    /\ libPos <= Len(libraries)
    /\ libStage = "main"
    /\ \E outcome \in NetOutcomes :
          LET f == LibFile(libPos) IN
          /\ disk' = diskAfterDownloadFile(disk, f, outcome)
          /\ issued' = requestsOfDownloadFile(disk, f)
          /\ requested' = requested \cup issued'
          /\ IF downloadFileResolves(disk, f, outcome)
             THEN /\ libStage' = "native"
                  /\ UNCHANGED <<srcIdx, warnings, libPos>>
             ELSE IF srcIdx < NumRepos
             THEN /\ srcIdx' = srcIdx + 1
                  /\ UNCHANGED <<libStage, warnings, libPos>>
             ELSE /\ warnings' = warnings \cup {LibWarning(libPos)}
                  /\ libPos' = Len(libraries) + 1
                  /\ UNCHANGED <<libStage, srcIdx>>
          /\ \E chunks \in (IF downloadFileSkips(disk, f) THEN {<<>>}
                             ELSE chunksOf(outcome)) :
                Progress([k \in 1..Len(chunks) |->
                            libraryProgress(completedLibs(libPos), chunks[k])])
    /\ UNCHANGED <<platform, homedir, hostVars, callVars, manifestVars, jvmArgs, launchVars, ruleVars, pc, result, javaVars, descriptorVars,
                   assetVars>>

\* lines 204-252: one downloadFile call for the main artifact, from the
\* explicit URL or from one mirror
LibraryTrySource ==
    /\ pc = "FetchingLibraries"
    /\ libPos <= Len(libraries)
    /\ libStage = "main"
    /\ \E outcome \in NetOutcomes :
          LET f == LibFile(libPos) IN
          /\ disk' = diskAfterDownloadFile(disk, f, outcome)
          /\ issued' = requestsOfDownloadFile(disk, f)
          /\ requested' = requested \cup issued'
          /\ IF downloadFileResolves(disk, f, outcome)
             THEN /\ libStage' = "native"
                  /\ UNCHANGED <<srcIdx, warnings>>
             ELSE IF srcIdx < NumRepos
             THEN /\ srcIdx' = srcIdx + 1
                  /\ UNCHANGED <<libStage, warnings>>
             ELSE /\ warnings' = warnings \cup {LibWarning(libPos)}
                  /\ libStage' = "native"
                  /\ UNCHANGED srcIdx
          /\ \E chunks \in (IF downloadFileSkips(disk, f) THEN {<<>>}
                             ELSE chunksOf(outcome)) :
                Progress([k \in 1..Len(chunks) |->
                            libraryProgress(completedLibs(libPos), chunks[k])])
    /\ UNCHANGED <<platform, homedir, hostVars, callVars, manifestVars, jvmArgs, launchVars, ruleVars, pc, result, javaVars, descriptorVars,
                   libPos, assetVars>>

\* lines 254-288: the native classifier of the current platform, then
\* completed++ and the next library of the filtered list
LibraryNative ==
    /\ pc = "FetchingLibraries"
    /\ libPos <= Len(libraries)
    /\ libStage = "native"
    /\ \E outcome \in NetOutcomes :
          LET f == NativeFile(libPos) IN
          IF hasNativeClassifier(libraries[libPos])
          THEN /\ disk' = diskAfterDownloadFile(disk, f, outcome)
               /\ issued' = requestsOfDownloadFile(disk, f)
               /\ requested' = requested \cup issued'
               /\ warnings' =
                    IF downloadFileResolves(disk, f, outcome) THEN warnings
                    ELSE warnings \cup {<<"native", libPos>>}
          ELSE /\ issued' = {}
               /\ requested' = requested
               /\ UNCHANGED <<disk, warnings>>
    /\ libPos' = nextEligible(libraries, libPos + 1)
    /\ libStage' = "main"
    /\ srcIdx' = firstSource(libraries, libPos')
    /\ Progress(<<libraryProgress(completedLibs(libPos) + 1, 0)>>)
    /\ UNCHANGED <<platform, homedir, hostVars, callVars, manifestVars, jvmArgs, launchVars, ruleVars, pc, result, javaVars, descriptorVars,
                   assetVars>>

\* line 291 and launchMinecraft 979-982: the loop is over
LibrariesDone ==
    /\ pc = "FetchingLibraries"
    /\ libPos > Len(libraries)
    /\ pc' = "FetchingAssets"
    /\ issued' = {}
    /\ requested' = requested \cup issued'
    /\ Progress(<<Whole(85)>>)
    /\ UNCHANGED <<platform, homedir, hostVars, callVars, manifestVars, jvmArgs, launchVars, ruleVars, result, javaVars, descriptorVars,
                   disk, warnings, libVars, assetVars>>

(***************************************************************************)
(* downloadAssets (src/minecraft.js 294-397)                               *)
(***************************************************************************)
\* line 315
batchSize == 10

\* line 317
maxRetries == 3

\* a plausible bug: the threshold test is failed >= total * 0.1
tooManyFailedInclusive(nFailed, total) == 10 * nFailed >= total

\* line 385: failed > total * 0.1. In double arithmetic total * 0.1 is never
\* below total / 10 and exceeds it by less than 1/10 for every total below
\* 2^50, so for integers the test is 10 * failed > total.
tooManyFailed(nFailed, total) == 10 * nFailed > total

NotStarted == [st |-> "notStarted", attempt |-> 0]

\* the part of the state the tasks of a batch read and write
FetchState == [disk |-> disk, tasks |-> tasks, completed |-> completed,
               failed |-> failed, issued |-> {}]

\* lines 354-361 and 363-366: an attempt failed; back off before the next
\* one, or count the object as failed after the last
attemptFailed(S, k, a) ==
    IF a < maxRetries - 1
    THEN [S EXCEPT !.tasks[k] = [st |-> "backoff", attempt |-> a]]
    ELSE [S EXCEPT !.tasks[k] = [st |-> "failed", attempt |-> a],
                   !.failed = S.failed + 1]

\* lines 338-353, the call of downloadFile in attempt a: a non-empty file
\* makes downloadFile resolve at once, and the size check that follows either
\* completes the task or unlinks the file and fails the attempt; otherwise the
\* write stream is opened and the request is sent
beginAttempt(S, k, a) ==
    LET f == ObjectFile(objects[k]) IN
    IF downloadFileSkips(S.disk, f)
    THEN IF S.disk[f] = "full"
         THEN [S EXCEPT !.tasks[k] = [st |-> "done", attempt |-> a],
                        !.completed = S.completed + 1]
         ELSE attemptFailed([S EXCEPT !.disk[f] = "absent"], k, a)
    ELSE [S EXCEPT !.disk[f] = "empty",
                   !.tasks[k] = [st |-> "request", attempt |-> a],
                   !.issued = S.issued \cup {f}]

\* lines 321-340: the synchronous start of one task of the batch
startTask(S, k) ==
    LET f == ObjectFile(objects[k]) IN
    IF S.disk[f] = "full"
    THEN [S EXCEPT !.tasks[k] = [st |-> "done", attempt |-> 0],
                   !.completed = S.completed + 1]
    ELSE beginAttempt(S, k, 0)

\* batch.map (line 321): the tasks k..hi of the batch start in index order
RECURSIVE startTasks(_, _, _)
startTasks(S, k, hi) ==
    IF k > hi THEN S ELSE startTasks(startTask(S, k), k + 1, hi)

\* a plausible bug: the loop hands every remaining object to one batch
batchEndUnbounded == Len(objects)

\* line 320: the last index of objectEntries.slice(i, i + batchSize)
batchEnd == IF batchStart + batchSize - 1 < Len(objects)
            THEN batchStart + batchSize - 1 ELSE Len(objects)

Settled(t) == t.st \in {"done", "failed"}

\* lines 295-308: the index is fetched when absent or empty, then parsed
FetchAssetIndex ==
    /\ pc = "FetchingAssets"
    /\ assetStage = "index"
    /\ IF ~hasAssetIndex
       THEN /\ pc' = "ExtractingNatives"
            /\ issued' = {}
            /\ requested' = requested \cup issued'
            /\ Progress(<<Whole(100)>>)
            /\ UNCHANGED <<result, disk, assetVars>>
       ELSE \E outcome \in NetOutcomes :
              LET fetch == disk[IndexFile] \in {"absent", "empty"}
                  after == IF fetch THEN fileAfterRequest(outcome)
                           ELSE disk[IndexFile]
              IN  /\ disk' = [disk EXCEPT ![IndexFile] = after]
                  /\ issued' = IF fetch THEN {IndexFile} ELSE {}
                  /\ requested' = requested \cup issued'
                  /\ NoProgress
                  /\ IF after = "full"
                     THEN /\ assetStage' = "batches"
                          /\ tasks' = [k \in 1..Len(objects) |-> NotStarted]
                          /\ batchStart' = 1
                          /\ completed' = 0
                          /\ failed' = 0
                          /\ UNCHANGED <<pc, result>>
                     ELSE /\ pc' = "Error"
                          /\ result' = Rejected("AssetIndexError", 0, <<>>)
                          /\ UNCHANGED assetVars
    /\ UNCHANGED <<platform, homedir, hostVars, callVars, manifestVars, jvmArgs, launchVars, ruleVars, javaVars, descriptorVars, warnings,
                   libVars>>

\* lines 319-367: the tasks of the next batch are created
StartBatch ==
    /\ pc = "FetchingAssets"
    /\ assetStage = "batches"
    /\ batchStart <= Len(objects)
    /\ tasks[batchStart] = NotStarted
    /\ LET S == startTasks(FetchState, batchStart, batchEnd)
       IN  /\ disk' = S.disk
           /\ tasks' = S.tasks
           /\ completed' = S.completed
           /\ failed' = S.failed
           /\ issued' = S.issued
           /\ requested' = requested \cup issued'
    /\ NoProgress
    /\ UNCHANGED <<platform, homedir, hostVars, callVars, manifestVars, jvmArgs, launchVars, ruleVars, pc, result, javaVars, descriptorVars,
                   warnings, libVars, assetStage, batchStart>>

\* lines 340-361: the request of task k ends
TaskResponse(k) ==
    /\ pc = "FetchingAssets"
    /\ assetStage = "batches"
    /\ tasks[k].st = "request"
    /\ \E outcome \in NetOutcomes :
          LET f == ObjectFile(objects[k])
              a == tasks[k].attempt
              S == IF outcome = "ok"
                   THEN [FetchState EXCEPT
                            !.disk[f] = "full",
                            !.tasks[k] = [st |-> "done", attempt |-> a],
                            !.completed = completed + 1]
                   ELSE attemptFailed([FetchState EXCEPT !.disk[f] = "absent"],
                                      k, a)
          IN  /\ disk' = S.disk
              /\ tasks' = S.tasks
              /\ completed' = S.completed
              /\ failed' = S.failed
              /\ issued' = {}
              /\ requested' = requested \cup issued'
    /\ NoProgress
    /\ UNCHANGED <<platform, homedir, hostVars, callVars, manifestVars, jvmArgs, launchVars, ruleVars, pc, result, javaVars, descriptorVars,
                   warnings, libVars, assetStage, batchStart>>

\* line 358: the backoff timer of task k fires and the next attempt starts
TaskRetry(k) ==
    /\ pc = "FetchingAssets"
    /\ assetStage = "batches"
    /\ tasks[k].st = "backoff"
    /\ LET S == beginAttempt(FetchState, k, tasks[k].attempt + 1)
       IN  /\ disk' = S.disk
           /\ tasks' = S.tasks
           /\ completed' = S.completed
           /\ failed' = S.failed
           /\ issued' = S.issued
           /\ requested' = requested \cup issued'
    /\ NoProgress
    /\ UNCHANGED <<platform, homedir, hostVars, callVars, manifestVars, jvmArgs, launchVars, ruleVars, pc, result, javaVars, descriptorVars,
                   warnings, libVars, assetStage, batchStart>>

\* line 369: Promise.all of the batch resolves, the loop moves on
FinishBatch ==
    /\ pc = "FetchingAssets"
    /\ assetStage = "batches"
    /\ batchStart <= Len(objects)
    /\ \A k \in batchStart..batchEnd : Settled(tasks[k])
    /\ batchStart' = batchStart + batchSize
    /\ issued' = {}
    /\ requested' = requested \cup issued'
    /\ Progress(<<Frac(90 * Len(objects) + 10 * completed, Len(objects))>>)
    /\ UNCHANGED <<platform, homedir, hostVars, callVars, manifestVars, jvmArgs, launchVars, ruleVars, pc, result, javaVars, descriptorVars,
                   disk, warnings, libVars, assetStage, tasks, completed, failed>>

\* lines 382-392: after the last batch
AssetsFinish ==
    /\ pc = "FetchingAssets"
    /\ assetStage = "batches"
    /\ batchStart > Len(objects)
    /\ issued' = {}
    /\ requested' = requested \cup issued'
    /\ IF tooManyFailed(failed, Len(objects))
       THEN /\ pc' = "Error"
            /\ result' = Rejected("TooManyAssetsFailed", 0, <<>>)
            /\ NoProgress
            /\ UNCHANGED warnings
       ELSE /\ pc' = "ExtractingNatives"
            /\ warnings' = IF failed > 0 THEN warnings \cup {AssetsWarning}
                           ELSE warnings
            /\ Progress(<<Whole(100)>>)
            /\ UNCHANGED result
    /\ UNCHANGED <<platform, homedir, hostVars, callVars, manifestVars, jvmArgs, launchVars, ruleVars, javaVars, descriptorVars, disk, libVars,
                   assetVars>>

AssetActions ==
    \/ FetchAssetIndex
    \/ StartBatch
    \/ \E k \in 1..Len(objects) : TaskResponse(k)
    \/ \E k \in 1..Len(objects) : TaskRetry(k)
    \/ FinishBatch
    \/ AssetsFinish

(***************************************************************************)
(* getVersionData and the client jar (src/minecraft.js 35-60, 954-973)     *)
(***************************************************************************)
\* what a request of getVersionData can end in
ManifestOutcomes == {"ok", "error"}

\* a plausible bug: a request is served only when no earlier launch is in
\* progress
StartLaunchExclusive ==
    /\ pc = "Idle"
    /\ earlier \in {"none", "closed"}
    /\ LET ram == or(requestRam, prefsRam)
           args == launchArguments(requestVersion, Str("Steve"), ram, Fn,
                                   Undefined)
       IN  /\ prefsRam' = ram
           /\ onProgress' = (args.onProgress.t = "function")
           /\ ramAllocation' = args.ramAllocation
    /\ pc' = "ResolvingManifest"
    /\ sent' = Append(sent, "game-started")
    /\ manifestRequests' = manifestRequests + 1
    /\ reported' = IF onProgress' THEN <<Whole(0)>> ELSE <<>>
    /\ progress' = IF onProgress' THEN <<Whole(0)>> ELSE progress
    /\ UNCHANGED <<platform, homedir, ruleVars, result, javaVars, descriptorVars,
                   fetchVars, launchVars, requestVersion, requestRam, reply,
                   earlier, version, descriptorRequests, manifest, versionData,
                   jvmArgs>>

\* the handler of launch-minecraft in main.js (README 181-192) saves the
\* preferences and calls launchMinecraft(version, username, ramAllocation ||
\* prefs.ramAllocation, callback); lines 925-951 shuffle the parameters and
\* the promise executor starts with onProgress(0) and the manifest request;
\* the call returns the promise at the executor's first await and the handler
\* sends game-started (README 192) before it awaits the promise
StartLaunch ==
    /\ pc = "Idle"
    /\ LET ram == or(requestRam, prefsRam)
           args == launchArguments(requestVersion, Str("Steve"), ram, Fn,
                                   Undefined)
       IN  /\ prefsRam' = ram
           /\ onProgress' = (args.onProgress.t = "function")
           /\ ramAllocation' = args.ramAllocation
    /\ pc' = "ResolvingManifest"
    /\ sent' = Append(sent, "game-started")
    /\ manifestRequests' = manifestRequests + 1
    /\ reported' = IF onProgress' THEN <<Whole(0)>> ELSE <<>>
    /\ progress' = IF onProgress' THEN <<Whole(0)>> ELSE progress
    /\ UNCHANGED <<platform, homedir, ruleVars, result, javaVars, descriptorVars,
                   fetchVars, launchVars, requestVersion, requestRam, reply,
                   earlier, version, descriptorRequests, manifest, versionData,
                   jvmArgs>>

\* a plausible bug: a manifest without the id falls back to its latest
\* release
resolveIdOrLatest(wanted, m) ==
    IF truthy(wanted) /\ wanted.s \in m.ids THEN wanted.s ELSE m.latest

\* lines 39-41: the requested id, or the manifest's latest release when no
\* id was requested
resolveId(wanted, m) ==
    IF truthy(wanted) THEN wanted.s ELSE m.latest

\* lines 37-51: the manifest request ends; the id is looked up in the
\* manifest and the descriptor request is sent. manifests is the set of
\* manifests the server may deliver.
RequestManifest(manifests) ==
    /\ pc = "ResolvingManifest"
    /\ version = ""
    /\ \E outcome \in ManifestOutcomes :
          IF outcome = "ok"
          THEN \E m \in manifests :
                  LET id == resolveId(requestVersion, m) IN
                  /\ manifest' = <<m>>
                  /\ IF id \in m.ids
                     THEN /\ version' = id
                          /\ descriptorRequests' = descriptorRequests + 1
                          /\ UNCHANGED <<pc, result>>
                     ELSE /\ pc' = "Error"
                          /\ result' = Rejected("VersionNotFound", 0, <<>>)
                          /\ UNCHANGED <<version, descriptorRequests>>
          ELSE /\ pc' = "Error"
               /\ result' = Rejected("ManifestError", 0, <<>>)
               /\ UNCHANGED <<version, descriptorRequests, manifest>>
    /\ NoProgress
    /\ UNCHANGED <<platform, homedir, ruleVars, javaVars, descriptorVars, fetchVars,
                   launchVars, hostVars, callVars, manifestRequests,
                   versionData, jvmArgs>>

\* lines 51-59, 954-955 and 990: the descriptor arrives, or the launch is
\* rejected. descriptors is the set of descriptors the server may deliver.
\* The major line 990 asks for depends on the descriptor alone and is kept
\* from here on.
ResolveManifest(descriptors) ==
    /\ pc = "ResolvingManifest"
    /\ version # ""
    /\ \E outcome \in ManifestOutcomes :
          IF outcome = "ok"
          THEN \E d \in descriptors :
                  /\ libraries' = d.libraries
                  /\ hasAssetIndex' = d.hasAssetIndex
                  /\ objects' = d.objects
                  /\ minecraftArguments' = d.minecraftArguments
                  /\ versionData' = [javaVersion |-> d.javaVersion,
                                      id |-> d.id]
                  /\ requiredJavaVersion' = getRequiredJavaVersion(versionData')
                  /\ pc' = "FetchingClientJar"
                  /\ Progress(<<Whole(5)>>)
                  /\ UNCHANGED result
          ELSE /\ pc' = "Error"
               /\ result' = Rejected("DescriptorError", 0, <<>>)
               /\ NoProgress
               /\ UNCHANGED <<descriptorVars, requiredJavaVersion,
                              versionData>>
    /\ UNCHANGED <<platform, homedir, ruleVars, javaEnv, availableJava, uniqueJava,
                   selectedJava, fetchVars, launchVars, hostVars, callVars,
                   version, manifestRequests, descriptorRequests, manifest,
                   jvmArgs>>

\* line 969: 5 + progress * 0.3
jarProgress(p) == Frac(50 + 3 * p, 10)

\* lines 957-979: the client jar is fetched when absent or empty; a failed
\* request rejects the launch; otherwise downloadLibraries starts with the
\* first library of the filtered list
FetchClientJar ==
    /\ pc = "FetchingClientJar"
    /\ \E outcome \in NetOutcomes :
          LET fetch == disk[JarFile] \in {"absent", "empty"}
          IN  /\ disk' = IF fetch
                         THEN [disk EXCEPT ![JarFile] = fileAfterRequest(outcome)]
                         ELSE disk
              /\ issued' = IF fetch THEN {JarFile} ELSE {}
              /\ requested' = requested \cup issued'
              /\ \E chunks \in (IF fetch THEN chunksOf(outcome) ELSE {<<>>}) :
                   LET values == [k \in 1..Len(chunks) |->
                                     jarProgress(chunks[k])]
                   IN  IF fetch /\ outcome = "error"
                       THEN /\ pc' = "Error"
                            /\ result' = Rejected("DownloadError", 0, <<>>)
                            /\ Progress(values)
                            /\ UNCHANGED libVars
                       ELSE /\ pc' = "FetchingLibraries"
                            /\ libPos' = nextEligible(libraries, 1)
                            /\ libStage' = "main"
                            /\ srcIdx' = firstSource(libraries, libPos')
                            /\ Progress(Append(values, Whole(35)))
                            /\ UNCHANGED result
    /\ UNCHANGED <<platform, homedir, launchVars, ruleVars, javaVars, descriptorVars,
                   warnings, assetVars, hostVars, callVars, manifestVars,
                   jvmArgs>>

(***************************************************************************)
(* extractNatives (src/minecraft.js 399-472, 985-987)                      *)
(***************************************************************************)
\* what an earlier launch left in the natives directory
Stale == 0

\* lines 413-435: the libraries whose native archive extractNatives opens
nativeArchives ==
    {i \in 1..Len(libraries) :
        /\ shouldUseLibrary(libraries[i])
        /\ hasNativeClassifier(libraries[i])
        /\ disk[NativeFile(i)] # "absent"}

\* a plausible bug: the first archive that cannot be read ends the loop
extractedUntilFailure(readable) ==
    LET ok == {i \in nativeArchives : disk[NativeFile(i)] = "full"}
                \cup readable
    IN  {i \in ok : \A j \in nativeArchives : j < i => j \in ok}

\* lines 437-468: the archives whose entries are extracted; each sits in its
\* own try/catch. readable is the set of archives of another content that
\* AdmZip can read.
extracted(readable) ==
    {i \in nativeArchives : disk[NativeFile(i)] = "full"} \cup readable

\* a plausible bug: the directory is created when missing, never removed
ExtractNativesKeepsOld ==
    /\ pc = "ExtractingNatives"
    /\ \E readable \in SUBSET {i \in nativeArchives :
                                  disk[NativeFile(i)] = "wrong"} :
          nativesDir' = nativesDir
                          \cup {i \in nativeArchives :
                                  disk[NativeFile(i)] = "full"}
                          \cup readable
    /\ pc' = "DiscoveringRuntime"
    /\ NoProgress
    /\ UNCHANGED <<platform, homedir, hostVars, callVars, manifestVars, jvmArgs,
                   ruleVars, result, javaVars, descriptorVars, fetchVars,
                   classPath, account, gameArgs, procVars>>

\* lines 400-471: the directory is removed and created again, then every
\* archive that can be read is extracted into it. An archive of the declared
\* content is read; an empty one makes AdmZip throw; one of another content
\* may or may not be readable.
ExtractNatives ==
    /\ pc = "ExtractingNatives"
    /\ \E readable \in SUBSET {i \in nativeArchives :
                                  disk[NativeFile(i)] = "wrong"} :
          nativesDir' = extracted(readable)
    /\ pc' = "DiscoveringRuntime"
    /\ NoProgress
    /\ UNCHANGED <<platform, homedir, hostVars, callVars, manifestVars, jvmArgs, ruleVars, result, javaVars, descriptorVars,
                   fetchVars, classPath, account, gameArgs, procVars>>

(***************************************************************************)
(* buildClassPath (src/minecraft.js 859-923)                               *)
(***************************************************************************)
\* a plausible bug: the loop does not ask shouldUseLibrary
RECURSIVE classPathLoopNoRules(_, _, _, _)
classPathLoopNoRules(libs, d, i, acc) ==
    IF i > Len(libs) THEN acc
    ELSE IF libs[i].classifiers /\ ~libs[i].artifact
    THEN classPathLoopNoRules(libs, d, i + 1, acc)
    ELSE IF d[LibFile(i)] # "absent"
    THEN classPathLoopNoRules(libs, d, i + 1, Append(acc, LibFile(i)))
    ELSE classPathLoopNoRules(libs, d, i + 1, acc)

buildClassPathNoRules(libs, d) ==
    classPathLoopNoRules(libs, d, 1,
                         IF d[JarFile] # "absent" THEN <<JarFile>> ELSE <<>>)

\* lines 876-911: the loop over versionData.libraries
RECURSIVE classPathLoop(_, _, _, _)
classPathLoop(libs, d, i, acc) ==
    IF i > Len(libs) THEN acc
    ELSE IF ~shouldUseLibrary(libs[i])
    THEN classPathLoop(libs, d, i + 1, acc)
    ELSE IF libs[i].classifiers /\ ~libs[i].artifact
    THEN classPathLoop(libs, d, i + 1, acc)
    ELSE IF d[LibFile(i)] # "absent"
    THEN classPathLoop(libs, d, i + 1, Append(acc, LibFile(i)))
    ELSE classPathLoop(libs, d, i + 1, acc)

\* lines 860-869 and 922: the version jar when it exists, then the loop; the
\* entries are kept as a sequence, which is what the joined string holds
buildClassPath(libs, d) ==
    classPathLoop(libs, d, 1,
                  IF d[JarFile] # "absent" THEN <<JarFile>> ELSE <<>>)

\* a plausible bug: the launch goes from the classpath to the arguments
\* without asking for the account
BuildClassPathThenArgs ==
    /\ pc = "BuildingClassPath"
    /\ classPath' = buildClassPath(libraries, disk)
    /\ pc' = "BuildingArgs"
    /\ NoProgress
    /\ UNCHANGED <<platform, homedir, hostVars, callVars, manifestVars, jvmArgs, ruleVars, result, javaVars, descriptorVars,
                   fetchVars, nativesDir, account, gameArgs, procVars>>

\* lines 1033-1045
BuildClassPath ==
    /\ pc = "BuildingClassPath"
    /\ classPath' = buildClassPath(libraries, disk)
    /\ pc' = "AccountCheck"
    /\ NoProgress
    /\ UNCHANGED <<platform, homedir, hostVars, callVars, manifestVars, jvmArgs, ruleVars, result, javaVars, descriptorVars,
                   fetchVars, nativesDir, account, gameArgs, procVars>>

(***************************************************************************)
(* The account and the game arguments (src/minecraft.js 1047-1106)         *)
(***************************************************************************)
\* getSelectedAccount() found nothing
NoAccount ==
    [type |-> "none", username |-> "-", uuid |-> "-", accessToken |-> "-"]

\* the accounts getSelectedAccount() may return
Accounts ==
    {[type |-> "offline", username |-> "Steve", uuid |-> "-",
      accessToken |-> "-"],
     [type |-> "microsoft", username |-> "Alex", uuid |-> "uuid-Alex",
      accessToken |-> "token-Alex"]}

\* a plausible bug: without a selected account the launch goes on, as for an
\* offline player
AccountCheckLenient ==
    /\ pc = "AccountCheck"
    /\ \E a \in Accounts \cup {NoAccount} : account' = a
    /\ pc' = "BuildingArgs"
    /\ NoProgress
    /\ UNCHANGED <<platform, homedir, hostVars, callVars, manifestVars, jvmArgs,
                   ruleVars, result, javaVars, descriptorVars, fetchVars,
                   nativesDir, classPath, gameArgs, procVars>>

\* lines 1048-1056: the account is read; without one the launch is rejected
AccountCheck ==
    /\ pc = "AccountCheck"
    /\ \E a \in Accounts \cup {NoAccount} :
          /\ account' = a
          /\ IF a = NoAccount
             THEN /\ pc' = "Error"
                  /\ result' = Rejected("NoAccountSelected", 0, <<>>)
             ELSE /\ pc' = "BuildingArgs"
                  /\ UNCHANGED result
    /\ NoProgress
    /\ UNCHANGED <<platform, homedir, hostVars, callVars, manifestVars, jvmArgs, ruleVars, javaVars, descriptorVars, fetchVars,
                   nativesDir, classPath, gameArgs, procVars>>

\* MINECRAFT_DIR and ASSETS_DIR (lines 8-11)
MINECRAFT_DIR == homedir \o "/.minecraft-launcher"
ASSETS_DIR == MINECRAFT_DIR \o "/assets"

\* versionData.assetIndex?.id || ""
assetIndexId == IF hasAssetIndex THEN "1.8" ELSE ""

\* the placeholders lines 1086-1094 name, in the order of the chain
HandledPlaceholders ==
    <<"${auth_player_name}", "${version_name}", "${game_directory}",
      "${assets_root}", "${assets_index_name}", "${auth_access_token}",
      "${user_type}", "${auth_uuid}", "${user_properties}">>

\* the second argument of each replace call of the chain
valueOf(placeholder, acct) ==
    CASE placeholder = "${auth_player_name}" -> acct.username
      [] placeholder = "${version_name}" -> version
      [] placeholder = "${game_directory}" -> MINECRAFT_DIR
      [] placeholder = "${assets_root}" -> ASSETS_DIR
      [] placeholder = "${assets_index_name}" -> assetIndexId
      [] placeholder = "${auth_access_token}" ->
            IF acct.type = "microsoft" THEN acct.accessToken ELSE "0"
      [] placeholder = "${user_type}" ->
            IF acct.type = "microsoft" THEN "msa" ELSE "legacy"
      [] placeholder = "${auth_uuid}" ->
            IF acct.type = "microsoft" THEN acct.uuid
            ELSE "00000000-0000-0000-0000-000000000000"
      [] OTHER -> "{}"

\* String.prototype.replace with a string pattern, on a string kept as its
\* space-separated words: the first occurrence of the pattern is replaced,
\* later occurrences stay
replace(words, pattern, value) ==
    IF \E k \in 1..Len(words) : words[k] = pattern
    THEN LET k == CHOOSE k \in 1..Len(words) :
                     /\ words[k] = pattern
                     /\ \A j \in 1..(k - 1) : words[j] # pattern
         IN  [words EXCEPT ![k] = value]
    ELSE words

\* lines 1085-1094: the calls of the chain from the n-th on
RECURSIVE replaceChain(_, _, _)
replaceChain(words, n, acct) ==
    IF n > Len(HandledPlaceholders) THEN words
    ELSE replaceChain(replace(words, HandledPlaceholders[n],
                              valueOf(HandledPlaceholders[n], acct)),
                      n + 1, acct)

\* String.prototype.split(" ") (line 1095): the pieces of s between single
\* spaces; `from` is where the current piece starts, i the position examined
RECURSIVE split(_, _, _)
split(s, from, i) ==
    IF i > Len(s) THEN <<SubSeq(s, from, Len(s))>>
    ELSE IF SubSeq(s, i, i) = " "
    THEN <<SubSeq(s, from, i - 1)>> \o split(s, i + 1, i + 1)
    ELSE split(s, from, i + 1)

\* line 1095 on the string whose space-separated words are `words`: the
\* pieces of the n-th word and of those after it
RECURSIVE splitWords(_, _)
splitWords(words, n) ==
    IF n > Len(words) THEN <<>>
    ELSE split(words[n], 1, 1) \o splitWords(words, n + 1)

\* lines 1058-1075
authArgs(acct) ==
    IF acct.type = "microsoft"
    THEN <<"--username", acct.username, "--uuid", acct.uuid,
           "--accessToken", acct.accessToken, "--userType", "msa">>
    ELSE <<"--username", acct.username, "--uuid",
           "00000000-0000-0000-0000-000000000000", "--accessToken", "0",
           "--userType", "legacy">>

\* lines 1080-1106: an empty or absent template is falsy and selects the
\* modern list
buildGameArgs(template, acct) ==
    IF template # <<>>
    THEN splitWords(replaceChain(template, 1, acct), 1)
    ELSE <<"--version", version, "--gameDir", MINECRAFT_DIR,
           "--assetsDir", ASSETS_DIR, "--assetIndex", assetIndexId>>
           \o authArgs(acct) \o <<"--versionType", "release">>

\* line 986: path.join(MINECRAFT_DIR, "natives")
NATIVES_DIR == MINECRAFT_DIR \o "/natives"

\* line 1043: versionData.mainClass || "net.minecraft.client.main.Main"
MainClass == "net.minecraft.client.main.Main"

\* one element of the argument vector: flag is its text without the number,
\* mb the number written into a heap flag, words the value it carries (the
\* directory of the library path, the entries of the joined classpath)
Arg(flag, mb, words) == [flag |-> flag, mb |-> mb, words |-> words]

\* a plausible bug: the minimum heap is half of the maximum, rounded up
buildJvmArgsHalfUp(ram, dir, cp, mainClass, args) ==
    <<Arg("-Xmx", ram, <<>>),
      Arg("-Xms", (ram + 1) \div 2, <<>>),
      Arg("-Djava.library.path=", 0, <<dir>>),
      Arg("-cp", 0, <<>>),
      Arg("classPath", 0, cp),
      Arg(mainClass, 0, <<>>)>>
      \o [i \in 1..Len(args) |-> Arg(args[i], 0, <<>>)]

\* lines 1108-1115: the argument vector handed to spawn
buildJvmArgs(ram, dir, cp, mainClass, args) ==
    <<Arg("-Xmx", ram, <<>>),
      Arg("-Xms", ram \div 2, <<>>),
      Arg("-Djava.library.path=", 0, <<dir>>),
      Arg("-cp", 0, <<>>),
      Arg("classPath", 0, cp),
      Arg(mainClass, 0, <<>>)>>
      \o [i \in 1..Len(args) |-> Arg(args[i], 0, <<>>)]

\* lines 1078-1131
BuildArgs ==
    /\ pc = "BuildingArgs"
    /\ gameArgs' = buildGameArgs(minecraftArguments, account)
    /\ jvmArgs' = buildJvmArgs(ramAllocation.n, NATIVES_DIR, classPath,
                                MainClass, gameArgs')
    /\ pc' = "Launching"
    /\ NoProgress
    /\ UNCHANGED <<platform, homedir, hostVars, callVars, manifestVars, ruleVars, result, javaVars, descriptorVars,
                   fetchVars, nativesDir, classPath, account, procVars>>

(***************************************************************************)
(* The child process (src/minecraft.js 1133-1154)                          *)
(***************************************************************************)
\* a plausible bug: the promise is resolved as soon as spawn has returned
SpawnChildResolves ==
    /\ pc = "Launching"
    /\ pc' = "Running"
    /\ child' = "running"
    /\ result' = settle(result, Resolved(<<>>))
    /\ NoProgress
    /\ UNCHANGED <<platform, homedir, hostVars, callVars, manifestVars, jvmArgs, ruleVars, javaVars, descriptorVars, fetchVars,
                   nativesDir, classPath, account, gameArgs, exitCode>>

\* line 1134: spawn returns a child
SpawnChild ==
    /\ pc = "Launching"
    /\ pc' = "Running"
    /\ child' = "running"
    /\ NoProgress
    /\ UNCHANGED <<platform, homedir, hostVars, callVars, manifestVars, jvmArgs, ruleVars, result, javaVars, descriptorVars,
                   fetchVars, nativesDir, classPath, account, gameArgs,
                   exitCode>>

\* lines 1139-1145: the child's error event (the executable could not be
\* started); the handler calls reject
ChildError ==
    /\ child = "running"
    /\ child' = "failed"
    /\ result' = settle(result, Rejected("SpawnError", 0, <<>>))
    /\ pc' = IF pc = "Running" THEN "Error" ELSE pc
    /\ NoProgress
    /\ UNCHANGED <<platform, homedir, hostVars, callVars, manifestVars, jvmArgs, ruleVars, javaVars, descriptorVars, fetchVars,
                   nativesDir, classPath, account, gameArgs, exitCode>>

\* lines 1147-1154: the child's close event, which also follows an error
\* event; the handler calls resolve() and passes no value
ChildClose ==
    /\ child \in {"running", "failed"}
    /\ child' = "closed"
    /\ \E code \in {0, 1} : exitCode' = <<code>>
    /\ result' = settle(result, Resolved(<<>>))
    /\ pc' = IF pc = "Running" THEN "Closed" ELSE pc
    /\ NoProgress
    /\ UNCHANGED <<platform, homedir, hostVars, callVars, manifestVars, jvmArgs, ruleVars, javaVars, descriptorVars, fetchVars,
                   nativesDir, classPath, account, gameArgs>>

(***************************************************************************)
(* The handler after its await (src/README.md 194-205)                     *)
(***************************************************************************)
\* what the handler returns: { success: true }, or { success: false, error }
Reply(settled) ==
    [success |-> settled.state = "resolved", error |-> settled.error]

\* a plausible bug: the handler returns without the closing signal when the
\* launch was rejected
HandlerSettlesQuietly ==
    /\ result.state # "pending"
    /\ sent # <<>>
    /\ reply = <<>>
    /\ sent' = IF result.state = "resolved"
               THEN Append(sent, "game-closed") ELSE sent
    /\ reply' = <<Reply(result)>>
    /\ NoProgress
    /\ UNCHANGED <<platform, homedir, ruleVars, pc, result, javaVars, descriptorVars,
                   fetchVars, launchVars, requestVersion, requestRam,
                   prefsRam, earlier, callVars, manifestVars, jvmArgs>>

\* the promise has settled and the handler goes on: game-closed is sent in
\* the try block (197) or in the catch block (203), then the handler returns
HandlerSettles ==
    /\ result.state # "pending"
    /\ sent # <<>>
    /\ reply = <<>>
    /\ sent' = Append(sent, "game-closed")
    /\ reply' = <<Reply(result)>>
    /\ NoProgress
    /\ UNCHANGED <<platform, homedir, ruleVars, pc, result, javaVars, descriptorVars,
                   fetchVars, launchVars, requestVersion, requestRam,
                   prefsRam, earlier, callVars, manifestVars, jvmArgs>>

(***************************************************************************)
(* The launch of an earlier request that is still in progress. It runs the *)
(* same code on the same cache tree and natives directory; the model keeps *)
(* its position and what it does to the shared directories.                *)
(***************************************************************************)
\* the files the earlier launch asks downloadFile for: the client jar and the
\* files of the first library
EarlierFiles == {JarFile, LibFile(1), NativeFile(1)}

\* a downloadFile call of the earlier launch (62-126) returns
EarlierDownloadFile ==
    /\ earlier = "downloading"
    /\ \E f \in EarlierFiles, outcome \in NetOutcomes :
          disk' = diskAfterDownloadFile(disk, f, outcome)
    /\ issued' = {}
    /\ NoProgress
    /\ UNCHANGED <<platform, homedir, ruleVars, pc, result, javaVars, descriptorVars,
                   requested, warnings, libVars, assetVars, launchVars,
                   hostVars, callVars, manifestVars, jvmArgs>>

\* the earlier launch reaches extractNatives (985-987, 399-404): the natives
\* directory is removed and holds what this launch extracts
EarlierExtractNatives ==
    /\ earlier = "downloading"
    /\ earlier' = "extracted"
    /\ nativesDir' = {Stale}
    /\ issued' = {}
    /\ NoProgress
    /\ UNCHANGED <<platform, homedir, ruleVars, pc, result, javaVars, descriptorVars,
                   disk, requested, warnings, libVars, assetVars, classPath,
                   account, gameArgs, exitCode, child, requestVersion,
                   requestRam, prefsRam, sent, reply, callVars, manifestVars,
                   jvmArgs>>

\* the earlier launch spawns its game process (1134) with
\* -Djava.library.path set to the natives directory (1111)
EarlierSpawn ==
    /\ earlier = "extracted"
    /\ earlier' = "running"
    /\ issued' = {}
    /\ NoProgress
    /\ UNCHANGED <<platform, homedir, ruleVars, pc, result, javaVars, descriptorVars,
                   disk, requested, warnings, libVars, assetVars, launchVars,
                   requestVersion, requestRam, prefsRam, sent, reply,
                   callVars, manifestVars, jvmArgs>>

\* the game process of the earlier launch exits (1147)
EarlierClose ==
    /\ earlier = "running"
    /\ earlier' = "closed"
    /\ issued' = {}
    /\ NoProgress
    /\ UNCHANGED <<platform, homedir, ruleVars, pc, result, javaVars, descriptorVars,
                   disk, requested, warnings, libVars, assetVars, launchVars,
                   requestVersion, requestRam, prefsRam, sent, reply,
                   callVars, manifestVars, jvmArgs>>

(***************************************************************************)
(* SPECIFICATIONS                                                          *)
(***************************************************************************)

(***************************************************************************)
(* SpecRules: one library, one platform, one evaluation                    *)
(***************************************************************************)
RulesInit ==
    \* os.platform(): the three values the code branches on, and one it
    \* does not
    /\ platform \in {"win32", "darwin", "linux", "freebsd"}
    /\ homedir = "/home/alex"
    /\ library \in RuleLibraries
    /\ verdict = <<>>
    /\ pc = "Idle"
    /\ result = Pending
    /\ JavaIdle
    /\ DescriptorIdle
    /\ FetchIdle
    /\ LaunchIdle

EvalRules ==
    /\ verdict = <<>>
    /\ verdict' = <<shouldUseLibrary(library)>>
    /\ NoProgress
    /\ UNCHANGED <<platform, homedir, hostVars, callVars, manifestVars, jvmArgs, launchVars, library, pc, result, javaVars, descriptorVars,
                   fetchVars>>

RulesNext == EvalRules

SpecRules == RulesInit /\ [][RulesNext]_vars

(***************************************************************************)
(* SpecJava: a launch that has reached runtime discovery                   *)
(***************************************************************************)
JavaInit ==
    /\ platform \in {"linux"}
    /\ homedir = "/home/alex"
    /\ RulesIdle
    /\ pc = "DiscoveringRuntime"
    /\ result = Pending
    \* the majors a descriptor or the id mapping asks for (lines 788-833)
    /\ requiredJavaVersion \in {8, 16, 17, 21}
    /\ JavaEnvInit
    /\ DescriptorIdle
    /\ FetchIdle
    /\ LaunchIdle

JavaNext == DiscoverRuntime \/ SelectRuntime

SpecJava == JavaInit /\ [][JavaNext]_vars

(***************************************************************************)
(* SpecAssets: a launch that has reached asset synchronization, with a     *)
(* cache that lacks at most MaxMissing of the index's objects              *)
(***************************************************************************)
AssetsInit ==
    /\ platform = "linux"
    /\ homedir = "/home/alex"
    /\ RulesIdle
    /\ pc = "FetchingAssets"
    /\ result = Pending
    /\ JavaIdle
    /\ libraries = <<>>
    /\ hasAssetIndex = TRUE
    /\ \E n \in 0..MaxAssets : objects = [k \in 1..n |-> k]
    \* the index entries that may be missing from the cache: the first two
    \* of the first batch and the first two of the second
    /\ \E missing \in SUBSET ({1, 2, batchSize + 1, batchSize + 2}
                                \cap (1..Len(objects))) :
          /\ Cardinality(missing) <= MaxMissing
          /\ \E idx \in {"absent", "full"} :
                disk = [f \in Files |->
                          IF f = IndexFile THEN idx
                          ELSE IF f.kind = "obj" /\ f.n \in 1..Len(objects)
                                  /\ f.n \notin missing
                          THEN "full" ELSE "absent"]
    /\ issued = {}
    /\ requested = {}
    /\ warnings = {}
    /\ libPos = 1
    /\ libStage = "main"
    /\ srcIdx = 0
    /\ assetStage = "index"
    /\ batchStart = 1
    /\ tasks = <<>>
    /\ completed = 0
    /\ failed = 0
    /\ minecraftArguments = <<>>
    /\ LaunchIdle

AssetsNext == AssetActions

SpecAssets == AssetsInit /\ [][AssetsNext]_vars

(***************************************************************************)
(* SpecSharedHash: asset synchronization over an index of at most          *)
(* MaxSharedAssets entries, drawn from two hashes, so that two entries of  *)
(* a batch may name one object file; no object is in the cache             *)
(***************************************************************************)
SharedHashInit ==
    /\ platform = "linux"
    /\ homedir = "/home/alex"
    /\ RulesIdle
    /\ pc = "FetchingAssets"
    /\ result = Pending
    /\ JavaIdle
    /\ libraries = <<>>
    /\ hasAssetIndex = TRUE
    /\ objects \in SeqsUpTo({1, 2}, MaxSharedAssets)
    /\ \E idx \in {"absent", "full"} :
          disk = [f \in Files |-> IF f = IndexFile THEN idx ELSE "absent"]
    /\ issued = {}
    /\ requested = {}
    /\ warnings = {}
    /\ libPos = 1
    /\ libStage = "main"
    /\ srcIdx = 0
    /\ assetStage = "index"
    /\ batchStart = 1
    /\ tasks = <<>>
    /\ completed = 0
    /\ failed = 0
    /\ minecraftArguments = <<>>
    /\ LaunchIdle

SharedHashNext == AssetActions

SpecSharedHash == SharedHashInit /\ [][SharedHashNext]_vars

(***************************************************************************)
(* SpecFetch: a launch that has reached the library fetch, over caches in   *)
(* which the files of one kind are in one state; it runs the library fetch *)
(* and the asset synchronization                                           *)
(***************************************************************************)
\* library entries of the launch specifications: without rules or allowed on
\* osx only; with or without downloads.artifact; without classifiers or with
\* a linux classifier
LaunchLibraries ==
    {l \in LibraryEntries :
        /\ \/ ~l.hasRules /\ l.rules = <<>>
           \/ l.hasRules /\ l.rules = <<[action |-> "allow", os |-> "osx"]>>
        /\ \/ ~l.classifiers /\ l.natives = {}
           \/ l.classifiers /\ l.natives = {"linux"}}

\* the library entries of SpecFetch: the fetch runs on linux and never looks
\* at a library it filtered out, so the osx-only library is drawn in one shape
FetchLibraries ==
    {l \in LaunchLibraries : l.hasRules => (l.artifact /\ ~l.classifiers)}

\* the cache tree drawn for a descriptor: the main files of its libraries
\* are in state dl, their classifier files in state dn, the index in state
\* di and its objects in state do; files the descriptor does not name are
\* absent
CacheOf(libs, objs, hasIndex, dl, dn, di, do) ==
    [f \in Files |->
        IF f.kind = "lib" /\ f.n <= Len(libs) THEN dl
        ELSE IF f.kind = "nat" /\ f.n <= Len(libs)
                /\ libs[f.n].classifiers THEN dn
        ELSE IF f = IndexFile /\ hasIndex THEN di
        ELSE IF f.kind = "obj" /\ f.n <= Len(objs) THEN do
        ELSE "absent"]

FetchInit ==
    /\ platform = "linux"
    /\ homedir = "/home/alex"
    /\ RulesIdle
    /\ pc = "FetchingLibraries"
    /\ result = Pending
    /\ JavaIdle
    /\ libraries \in SeqsUpTo(FetchLibraries, MaxFetchLibs)
    /\ hasAssetIndex \in BOOLEAN
    /\ \E n \in 0..MaxFetchAssets :
          objects = IF hasAssetIndex THEN [k \in 1..n |-> k] ELSE <<>>
    /\ \E dl \in FileStates, dn \in {"absent", "full"},
          di \in {"absent", "wrong", "full"},
          do \in {"absent", "wrong", "full"} :
          disk = CacheOf(libraries, objects, hasAssetIndex, dl, dn, di, do)
    /\ issued = {}
    /\ requested = {}
    /\ warnings = {}
    /\ libPos = nextEligible(libraries, 1)
    /\ libStage = "main"
    /\ srcIdx = firstSource(libraries, libPos)
    /\ assetStage = "index"
    /\ batchStart = 1
    /\ tasks = <<>>
    /\ completed = 0
    /\ failed = 0
    /\ minecraftArguments = <<>>
    /\ LaunchIdle

FetchNext ==
    \/ LibraryTrySource
    \/ LibraryNative
    \/ LibrariesDone
    \/ AssetActions

SpecFetch == FetchInit /\ [][FetchNext]_vars

(***************************************************************************)
(* SpecLibraries: the library fetch alone, over descriptors of at most     *)
(* MaxPhaseLibs libraries, where every request ends                        *)
(***************************************************************************)
\* the main files are all missing or all present with a size the descriptor
\* does not declare (downloadFile asks for no more than size > 0)
LibrariesInit ==
    /\ platform = "linux"
    /\ homedir = "/home/alex"
    /\ RulesIdle
    /\ pc = "FetchingLibraries"
    /\ result = Pending
    /\ JavaIdle
    /\ libraries \in SeqsUpTo(FetchLibraries, MaxPhaseLibs)
    /\ hasAssetIndex = FALSE
    /\ objects = <<>>
    /\ \E dl \in {"absent", "wrong"}, dn \in {"absent", "full"} :
          disk = CacheOf(libraries, objects, hasAssetIndex, dl, dn,
                         "absent", "absent")
    /\ issued = {}
    /\ requested = {}
    /\ warnings = {}
    /\ libPos = nextEligible(libraries, 1)
    /\ libStage = "main"
    /\ srcIdx = firstSource(libraries, libPos)
    /\ assetStage = "index"
    /\ batchStart = 1
    /\ tasks = <<>>
    /\ completed = 0
    /\ failed = 0
    /\ minecraftArguments = <<>>
    /\ LaunchIdle

LibrariesNext ==
    \/ LibraryTrySource
    \/ LibraryNative
    \/ LibrariesDone

\* a request that was sent ends, with a response or an error (downloadFile
\* sets no timeout of its own, the network layer ends a dead connection), and
\* the promise of downloadFile settles; the loop of downloadLibraries awaits
\* nothing else, so its next step is always taken
SpecLibraries ==
    LibrariesInit /\ [][LibrariesNext]_vars /\ WF_vars(LibrariesNext)

(***************************************************************************)
(* SpecClassPath: a launch that has selected its runtime, over every       *)
(* descriptor of at most MaxClassPathLibs libraries and every cache        *)
(***************************************************************************)
ClassPathInit ==
    /\ platform \in {"linux", "darwin"}
    /\ homedir = "/home/alex"
    /\ RulesIdle
    /\ pc = "BuildingClassPath"
    /\ result = Pending
    /\ JavaIdle
    /\ libraries \in SeqsUpTo(LaunchLibraries, MaxClassPathLibs)
    /\ hasAssetIndex = FALSE
    /\ objects = <<>>
    /\ minecraftArguments = <<>>
    /\ \E dj \in {"absent", "empty", "full"},
          dl \in [1..MaxClassPathLibs -> {"absent", "empty", "full"}] :
          disk = [f \in Files |->
                    IF f = JarFile THEN dj
                    ELSE IF f.kind = "lib" /\ f.n <= Len(libraries)
                    THEN dl[f.n] ELSE "absent"]
    /\ issued = {}
    /\ requested = {}
    /\ warnings = {}
    /\ libPos = Len(libraries) + 1
    /\ libStage = "main"
    /\ srcIdx = 1
    /\ assetStage = "index"
    /\ batchStart = 1
    /\ tasks = <<>>
    /\ completed = 0
    /\ failed = 0
    /\ LaunchIdle

ClassPathNext == BuildClassPath

SpecClassPath == ClassPathInit /\ [][ClassPathNext]_vars

(***************************************************************************)
(* SpecNatives: a launch that has finished its downloads, over every       *)
(* descriptor of at most MaxClassPathLibs libraries and every state of     *)
(* their native archives                                                   *)
(***************************************************************************)
NativesInit ==
    /\ platform \in {"linux", "darwin"}
    /\ homedir = "/home/alex"
    /\ RulesIdle
    /\ pc = "ExtractingNatives"
    /\ result = Pending
    /\ JavaIdle
    /\ libraries \in SeqsUpTo(LaunchLibraries, MaxClassPathLibs)
    /\ hasAssetIndex = FALSE
    /\ objects = <<>>
    /\ minecraftArguments = <<>>
    /\ \E dn \in [1..MaxClassPathLibs -> FileStates] :
          disk = [f \in Files |->
                    IF f.kind = "nat" /\ f.n <= Len(libraries)
                       /\ libraries[f.n].classifiers
                    THEN dn[f.n] ELSE "absent"]
    /\ issued = {}
    /\ requested = {}
    /\ warnings = {}
    /\ libPos = Len(libraries) + 1
    /\ libStage = "main"
    /\ srcIdx = 1
    /\ assetStage = "index"
    /\ batchStart = 1
    /\ tasks = <<>>
    /\ completed = 0
    /\ failed = 0
    /\ LaunchIdle

NativesNext == ExtractNatives

SpecNatives == NativesInit /\ [][NativesNext]_vars

(***************************************************************************)
(* SpecRequiredJava: the arrival of the descriptor, over version ids of    *)
(* every band of getRequiredJavaVersion and every shape of the javaVersion *)
(* field                                                                   *)
(***************************************************************************)
\* version ids as characters: releases 1.7.10 to 1.21, snapshots of 2013 to
\* 2024, a beta, an alpha, a pre-classic id, and no id
VersionIds ==
    {<<"1", ".", "7", ".", "1", "0">>,
     <<"1", ".", "8", ".", "9">>,
     <<"1", ".", "1", "1", ".", "2">>,
     <<"1", ".", "1", "2", ".", "2">>,
     <<"1", ".", "1", "6", ".", "5">>,
     <<"1", ".", "1", "7", ".", "1">>,
     <<"1", ".", "1", "8", ".", "2">>,
     <<"1", ".", "1", "9", ".", "4">>,
     <<"1", ".", "2", "0", ".", "4">>,
     <<"1", ".", "2", "0", ".", "5">>,
     <<"1", ".", "2", "1">>,
     <<"1", "3", "w", "1", "6", "a">>,
     <<"2", "0", "w", "1", "4", "a">>,
     <<"2", "1", "w", "0", "3", "a">>,
     <<"2", "3", "w", "5", "1", "b">>,
     <<"2", "4", "w", "1", "0", "a">>,
     <<"b", "1", ".", "7", ".", "3">>,
     <<"a", "1", ".", "0", ".", "4">>,
     <<"r", "d", "-", "1", "3", "2", "2", "1", "1">>,
     <<>>}

\* the javaVersion field: absent, a number, an object with a majorVersion,
\* an object without
JavaDescriptors ==
    [libraries : {<<>>}, hasAssetIndex : {FALSE}, objects : {<<>>},
     minecraftArguments : {<<>>},
     javaVersion : {Undefined, Num(8), Num(17), Obj(8), Obj(16), Obj(17),
                    Obj(21), Obj(0)},
     id : VersionIds]

RequiredJavaInit ==
    /\ platform = "linux"
    /\ homedir = "/home/alex"
    /\ RulesIdle
    /\ pc = "ResolvingManifest"
    /\ result = Pending
    /\ JavaIdle
    /\ DescriptorIdle
    /\ FetchIdle
    /\ LaunchIdle

RequiredJavaNext == ResolveManifest(JavaDescriptors)

SpecRequiredJava == RequiredJavaInit /\ [][RequiredJavaNext]_vars

(***************************************************************************)
(* SpecArgs: a launch that has its account, over every template of at most *)
(* MaxTemplate words                                                       *)
(***************************************************************************)
\* the words of a legacy template: a flag, the placeholders the chain names,
\* and ${version_type}, which the templates of 1.7.10 to 1.12.2 end with
TemplateWords ==
    {"--flag", "${version_type}"}
      \cup {HandledPlaceholders[n] : n \in 1..Len(HandledPlaceholders)}

ArgsInit ==
    /\ platform = "linux"
    \* a home directory without a space, and one with a space
    /\ homedir \in {"/home/alex", "/home/alex smith"}
    /\ RulesIdle
    /\ pc = "BuildingArgs"
    /\ result = Pending
    /\ JavaIdle
    /\ libraries = <<>>
    /\ hasAssetIndex \in BOOLEAN
    /\ objects = <<>>
    /\ minecraftArguments \in SeqsUpTo(TemplateWords, MaxTemplate)
    /\ FetchIdle
    /\ nativesDir = {}
    /\ classPath = <<JarFile>>
    /\ account \in Accounts
    /\ gameArgs = <<>>
    /\ exitCode = <<>>
    /\ child = "none"
    /\ requestVersion = Undefined
    /\ requestRam = Undefined
    /\ prefsRam = Num(DefaultRam)
    /\ sent = <<"game-started">>
    /\ reply = <<>>
    /\ earlier = "none"
    /\ onProgress = FALSE
    \* the allocations that reach the argument builder: the default, and an
    \* odd number of MB as a direct caller of launchMinecraft may pass
    /\ ramAllocation \in {Num(DefaultRam), Num(4097)}
    /\ version = VersionId
    /\ manifestRequests = 1
    /\ descriptorRequests = 1
    /\ manifest = <<>>
    /\ versionData = NoVersionData
    /\ progress = <<>>
    /\ reported = <<>>
    /\ jvmArgs = <<>>

ArgsNext == BuildArgs

SpecArgs == ArgsInit /\ [][ArgsNext]_vars

(***************************************************************************)
(* Spec: one launch, from the request to the exit of the game              *)
(***************************************************************************)
\* the descriptors the version server delivers: a modern one without
\* libraries, a legacy one with a library that carries a linux native and an
\* index of one object, and a modern one whose library has no explicit URL
LaunchDescriptors ==
    {[libraries |-> <<>>, hasAssetIndex |-> FALSE, objects |-> <<>>,
      minecraftArguments |-> <<>>, javaVersion |-> Obj(17), id |-> <<>>],
     [libraries |-> <<[hasRules |-> FALSE, rules |-> <<>>, artifact |-> TRUE,
                       classifiers |-> TRUE, natives |-> {"linux"}]>>,
      hasAssetIndex |-> TRUE, objects |-> <<1>>,
      minecraftArguments |-> <<"--username", "${auth_player_name}",
                               "--versionType", "${version_type}">>,
      javaVersion |-> Obj(8), id |-> <<>>],
     [libraries |-> <<[hasRules |-> FALSE, rules |-> <<>>, artifact |-> FALSE,
                       classifiers |-> FALSE, natives |-> {}]>>,
      hasAssetIndex |-> TRUE, objects |-> <<>>,
      minecraftArguments |-> <<>>, javaVersion |-> Obj(21), id |-> <<>>]}

\* the manifests the server may deliver: with the requested id and the
\* latest release, without the requested id, without its own latest release
LaunchManifests ==
    {[ids |-> {VersionId, "1.21"}, latest |-> "1.21"],
     [ids |-> {"1.21"}, latest |-> "1.21"],
     [ids |-> {VersionId}, latest |-> "1.21"]}

\* the machines a launch runs on: java 8 and java 17 installed, one of them
\* possibly bundled, or none found
LaunchJavaInit ==
    /\ requiredJavaVersion = 0
    /\ probe = [p \in JavaPaths |->
                  IF p = "javaA" THEN 8 ELSE IF p = "javaB" THEN 17
                  ELSE ProbeFailed]
    /\ builtInFolders \in {<<>>, <<[path |-> "javaB", zulu |-> 17]>>}
    /\ systemOrder \in {<<>>, <<"javaA">>}
    /\ availableJava = <<>>
    /\ uniqueJava = <<>>
    /\ selectedJava = NoJava

Init ==
    /\ platform \in {"linux", "darwin"}
    /\ homedir = "/home/alex"
    /\ RulesIdle
    /\ pc = "Idle"
    /\ result = Pending
    /\ LaunchJavaInit
    /\ DescriptorIdle
    \* the cache tree is empty, or complete after an earlier launch, or an
    \* earlier run was interrupted and left the jar and the library files
    \* with a part of their content
    /\ \E s \in {"absent", "full", "wrong"} :
          /\ disk = [f \in Files |->
                       IF s = "wrong" /\ f.kind \in {"index", "obj"}
                       THEN "full" ELSE s]
          /\ nativesDir = IF s = "full" THEN {Stale} ELSE {}
    /\ issued = {}
    /\ requested = {}
    /\ warnings = {}
    /\ libPos = 0
    /\ libStage = "main"
    /\ srcIdx = 0
    /\ assetStage = "index"
    /\ batchStart = 1
    /\ tasks = <<>>
    /\ completed = 0
    /\ failed = 0
    /\ classPath = <<>>
    /\ account = NoAccount
    /\ gameArgs = <<>>
    /\ exitCode = <<>>
    /\ child = "none"
    /\ requestVersion \in {Undefined, Str(VersionId)}
    \* the memory allocation a request carries (none, or 4096 MB) and the
    \* stored preference
    /\ requestRam \in {Undefined, Num(4096)}
    /\ prefsRam \in {Num(DefaultRam), Num(8192)}
    /\ sent = <<>>
    /\ reply = <<>>
    /\ earlier = "none"
    /\ onProgress = FALSE
    /\ ramAllocation = Undefined
    /\ version = ""
    /\ manifestRequests = 0
    /\ descriptorRequests = 0
    /\ manifest = <<>>
    /\ versionData = NoVersionData
    /\ progress = <<>>
    /\ reported = <<>>
    /\ jvmArgs = <<>>

Next ==
    \/ StartLaunch
    \/ RequestManifest(LaunchManifests)
    \/ ResolveManifest(LaunchDescriptors)
    \/ FetchClientJar
    \/ LibraryTrySource
    \/ LibraryNative
    \/ LibrariesDone
    \/ AssetActions
    \/ ExtractNatives
    \/ DiscoverRuntime
    \/ SelectRuntime
    \/ BuildClassPath
    \/ AccountCheck
    \/ BuildArgs
    \/ SpawnChild
    \/ ChildError
    \/ ChildClose
    \/ HandlerSettles

Spec == Init /\ [][Next]_vars

(***************************************************************************)
(* SpecConcurrent: a second request arrives while the launch of an earlier *)
(* request is downloading or while its game process runs; the second       *)
(* launch is followed up to the end of its extractNatives                  *)
(***************************************************************************)
\* the descriptor both launches work on: one library with a native
\* classifier for linux, no asset index
ConcurrentDescriptors ==
    {[libraries |-> <<[hasRules |-> FALSE, rules |-> <<>>, artifact |-> TRUE,
                       classifiers |-> TRUE, natives |-> {"linux"}]>>,
      hasAssetIndex |-> FALSE, objects |-> <<>>,
      minecraftArguments |-> <<>>, javaVersion |-> Obj(17), id |-> <<>>]}

\* an earlier launch that is downloading has an empty or a complete cache
\* tree before it; one whose game process runs has downloaded every file and
\* extracted its natives
ConcurrentInit ==
    /\ platform = "linux"
    /\ homedir = "/home/alex"
    /\ RulesIdle
    /\ pc = "Idle"
    /\ result = Pending
    /\ LaunchJavaInit
    /\ builtInFolders = <<>>
    /\ systemOrder = <<"javaA">>
    /\ DescriptorIdle
    /\ earlier \in {"downloading", "running"}
    /\ \E s \in {"absent", "full"} :
          /\ earlier = "running" => s = "full"
          /\ disk = [f \in Files |-> IF f \in EarlierFiles THEN s ELSE "absent"]
    /\ nativesDir = IF earlier = "running" THEN {Stale} ELSE {}
    /\ issued = {}
    /\ requested = {}
    /\ warnings = {}
    /\ libPos = 0
    /\ libStage = "main"
    /\ srcIdx = 0
    /\ assetStage = "index"
    /\ batchStart = 1
    /\ tasks = <<>>
    /\ completed = 0
    /\ failed = 0
    /\ classPath = <<>>
    /\ account = NoAccount
    /\ gameArgs = <<>>
    /\ exitCode = <<>>
    /\ child = "none"
    /\ requestVersion \in {Undefined, Str(VersionId)}
    /\ requestRam = Undefined
    /\ prefsRam = Num(DefaultRam)
    /\ sent = <<>>
    /\ reply = <<>>
    /\ onProgress = FALSE
    /\ ramAllocation = Undefined
    /\ version = ""
    /\ manifestRequests = 0
    /\ descriptorRequests = 0
    /\ manifest = <<>>
    /\ versionData = NoVersionData
    /\ progress = <<>>
    /\ reported = <<>>
    /\ jvmArgs = <<>>

ConcurrentNext ==
    \/ StartLaunch
    \/ RequestManifest({[ids |-> {VersionId, "1.21"}, latest |-> "1.21"]})
    \/ ResolveManifest(ConcurrentDescriptors)
    \/ FetchClientJar
    \/ LibraryTrySource
    \/ LibraryNative
    \/ LibrariesDone
    \/ FetchAssetIndex
    \/ ExtractNatives
    \/ HandlerSettles
    \/ EarlierDownloadFile
    \/ EarlierExtractNatives
    \/ EarlierSpawn
    \/ EarlierClose

SpecConcurrent == ConcurrentInit /\ [][ConcurrentNext]_vars

(***************************************************************************)
(* CLAIMS                                                                  *)
(***************************************************************************)

(***************************************************************************)
(* Claims on rule evaluation                                               *)
(***************************************************************************)
\* the platform's name in the rule vocabulary; "-" when it has none
RuleNameOf(p) ==
    CASE p = "win32" -> "windows"
      [] p = "darwin" -> "osx"
      [] p = "linux" -> "linux"
      [] OTHER -> "-"

ApplicableOn(rule, p) == rule.os = NoOs \/ rule.os = RuleNameOf(p)

ApplicableIdx(rs, p) == {i \in 1..Len(rs) : ApplicableOn(rs[i], p)}

MaxOf(S) == CHOOSE m \in S : \A x \in S : x <= m

Evaluated == verdict # <<>>

Included == verdict = <<TRUE>>

Excluded == verdict = <<FALSE>>

\* C1: a library with at least one applicable rule gets the action of the
\* last applicable rule in declared order (allow = included, disallow =
\* excluded), whatever earlier rules said; a library with no rules field is
\* included.
C1_LastApplicableRuleWins ==
    Evaluated =>
        /\ ~library.hasRules => Included
        /\ (library.hasRules /\ ApplicableIdx(library.rules, platform) # {}) =>
              (Included <=>
                library.rules[MaxOf(ApplicableIdx(library.rules, platform))].action
                    = "allow")

\* C1 witness: an evaluated library whose last applicable rule (disallow)
\* overrides an earlier applicable allow, with a non-applicable rule after it
C1_Witness ==
    /\ Evaluated
    /\ library.hasRules
    /\ Len(library.rules) = 3
    /\ ApplicableIdx(library.rules, platform) = {1, 2}
    /\ library.rules[1].action = "allow"
    /\ library.rules[2].action = "disallow"
    /\ library.rules[3].action = "allow"
    /\ Excluded

OsxDisallow == [action |-> "disallow", os |-> "osx"]

OsxDisallowIdx(rs) == {i \in 1..Len(rs) : rs[i] = OsxDisallow}

\* a rule set that disallows osx and has no other disallow rule
DisallowsOnlyOsx(rs) ==
    /\ OsxDisallowIdx(rs) # {}
    /\ \A i \in 1..Len(rs) : rs[i].action = "disallow" => rs[i].os = "osx"

\* C2 as stated: every rule set that disallows osx and has no other disallow
\* rule, the single osx-disallow rule included, is included on Linux and
\* excluded on macOS.
C2_Original ==
    (Evaluated /\ library.hasRules /\ DisallowsOnlyOsx(library.rules)) =>
        /\ platform = "linux" => Included
        /\ platform = "darwin" => Excluded

\* C2 amended: a rule set that disallows osx and has no other disallow rule is
\* included on Linux when it holds an allow rule applicable on Linux, and
\* excluded on macOS when no allow rule applicable on macOS follows its last
\* osx-disallow rule; the rule set of the single osx-disallow rule is excluded
\* on both platforms.
C2_OsxDisallowScenario ==
    (Evaluated /\ library.hasRules /\ DisallowsOnlyOsx(library.rules)) =>
        LET rs == library.rules
            lastDis == MaxOf(OsxDisallowIdx(rs))
        IN  /\ ( /\ platform = "linux"
                 /\ \E i \in 1..Len(rs) :
                       rs[i].action = "allow" /\ rs[i].os \in {NoOs, "linux"} )
               => Included
            /\ ( /\ platform = "darwin"
                 /\ \A i \in 1..Len(rs) :
                       (i > lastDis /\ rs[i].action = "allow")
                           => rs[i].os \notin {NoOs, "osx"} )
               => Excluded
            /\ (rs = <<OsxDisallow>> /\ platform \in {"linux", "darwin"})
               => Excluded

\* C2 witness: the rule set allow-all, disallow-osx evaluated on Linux
C2_Witness ==
    /\ Evaluated
    /\ library.hasRules
    /\ library.rules = <<[action |-> "allow", os |-> NoOs], OsxDisallow>>
    /\ platform = "linux"
    /\ Included

(***************************************************************************)
(* Claims on runtime selection                                             *)
(***************************************************************************)
\* the selection step of the launch has run
SelectionDone ==
    \/ pc = "BuildingClassPath"
    \/ pc = "Error" /\ result.error = "NoCompatibleJava"

CandidateMajors == {uniqueJava[i].version : i \in 1..Len(uniqueJava)}

QualifyingMajors == {v \in CandidateMajors : v >= requiredJavaVersion}

MinOf(S) == CHOOSE m \in S : \A x \in S : m <= x

IsCandidate(j) == \E i \in 1..Len(uniqueJava) : uniqueJava[i] = j

\* C3: selection returns a candidate with major = required if one exists;
\* otherwise a candidate whose major is the minimum of the candidate majors
\* >= required; otherwise none. It never returns a major < required.
C3_ExactElseMinimalCompatible ==
    SelectionDone =>
        /\ requiredJavaVersion \in CandidateMajors =>
              IsCandidate(selectedJava) /\ selectedJava.version = requiredJavaVersion
        /\ (requiredJavaVersion \notin CandidateMajors /\ QualifyingMajors # {}) =>
              IsCandidate(selectedJava) /\ selectedJava.version = MinOf(QualifyingMajors)
        /\ QualifyingMajors = {} => selectedJava = NoJava
        /\ selectedJava # NoJava => selectedJava.version >= requiredJavaVersion

\* C3 witness: required 17 with candidates 8, 17 and 21 yields the 17
C3_Witness ==
    /\ SelectionDone
    /\ requiredJavaVersion = 17
    /\ CandidateMajors = {8, 17, 21}
    /\ selectedJava.version = 17

\* C4 as stated: with at least one runtime discovered and none compatible the
\* launch is rejected with the incompatible-runtime error naming the required
\* major and the available majors, each discovered installation listed once;
\* required 21 with discovered majors 8 and 17 reads <<8, 17>>, whatever the
\* origins of the two installations.
C4_IncompatibleMessage ==
    ( /\ pc \notin {"DiscoveringRuntime", "SelectingRuntime"}
      /\ uniqueJava # <<>>
      /\ QualifyingMajors = {} )
    =>  /\ result.state = "rejected"
        /\ result.error = "NoCompatibleJava"
        /\ result.required = requiredJavaVersion
        /\ Len(result.available) = Len(uniqueJava)
        /\ ( /\ requiredJavaVersion = 21
             /\ Len(uniqueJava) = 2
             /\ CandidateMajors = {8, 17} )
           => result.available = <<8, 17>>

(***************************************************************************)
(* Claims on asset synchronization                                         *)
(***************************************************************************)
FailedObjects == {k \in 1..Len(tasks) : tasks[k].st = "failed"}

\* every batch has completed and the threshold test has run
AfterAllBatches ==
    /\ assetStage = "batches"
    /\ pc \in {"ExtractingNatives", "Error"}

\* C5: after all batches, asset synchronization fails fatally if and only if
\* 10 * (failed objects) > (objects in the index); otherwise it completes,
\* with a warning exactly when some object failed.
C5_FatalIffMoreThanTenPercent ==
    AfterAllBatches =>
        /\ (pc = "Error" /\ result.error = "TooManyAssetsFailed")
              <=> 10 * Cardinality(FailedObjects) > Len(objects)
        /\ pc = "ExtractingNatives" =>
              /\ result = Pending
              /\ AssetsWarning \in warnings <=> Cardinality(FailedObjects) > 0

\* C5 witness: 2 of 20 objects failed (exactly 10%) and the synchronization
\* completed with a warning
C5_Witness ==
    /\ AfterAllBatches
    /\ Len(objects) = 20
    /\ Cardinality(FailedObjects) = 2
    /\ pc = "ExtractingNatives"
    /\ AssetsWarning \in warnings


(***************************************************************************)
(* C6: a fetch against a fully populated cache                             *)
(***************************************************************************)
\* the libraries the fetch visits: libraries.filter(shouldUseLibrary)
EligibleIdx == {i \in 1..Len(libraries) : shouldUseLibrary(libraries[i])}

\* every file the fetch looks for is on disk: the main file of each visited
\* library (the path of downloads.artifact, or the path derived from the
\* name), the classifier file of the current platform where there is one,
\* the asset index, and every object of the index with its declared size
Populated ==
    /\ \A i \in EligibleIdx :
          /\ disk[LibFile(i)] \in {"wrong", "full"}
          /\ hasNativeClassifier(libraries[i]) =>
                disk[NativeFile(i)] \in {"wrong", "full"}
    /\ hasAssetIndex =>
          /\ disk[IndexFile] \in {"wrong", "full"}
          /\ \A k \in 1..Len(objects) : disk[ObjectFile(objects[k])] = "full"

\* C6: when every library artifact, native classifier artifact, the asset
\* index and every asset object (with its declared size) is already on disk,
\* no step of the library fetch or of the asset synchronization issues a
\* network request, and no step changes a cached file.
C6_PopulatedCacheNoRequests ==
    [][Populated => (issued' = {} /\ disk' = disk)]_vars

\* a populated cache with a library that has a main and a native artifact
\* and with an asset object, after both fetches ran to their end
C6_Witness ==
    /\ pc = "ExtractingNatives"
    /\ Populated
    /\ requested = {}
    /\ \E i \in EligibleIdx : hasNativeClassifier(libraries[i])
    /\ hasAssetIndex
    /\ Len(objects) > 0
    /\ libPos > Len(libraries)
    /\ batchStart > Len(objects)


(***************************************************************************)
(* C7: the classpath                                                       *)
(***************************************************************************)
\* buildClassPath has returned and nothing has touched its result since
ClassPathBuilt ==
    pc \in {"AccountCheck", "BuildingArgs", "Launching", "Running", "Closed"}

\* library i is rule-eligible, is not native-only, and its file exists
BelongsOnClassPath(i) ==
    /\ shouldUseLibrary(libraries[i])
    /\ ~(libraries[i].classifiers /\ ~libraries[i].artifact)
    /\ disk[LibFile(i)] # "absent"

\* the entries after the version jar
LibraryEntriesOfClassPath ==
    IF disk[JarFile] # "absent" /\ classPath # <<>>
    THEN Tail(classPath) ELSE classPath

\* C7: the classpath is the version jar first when it exists on disk,
\* followed by exactly the descriptor libraries that are rule-eligible, not
\* native-only and present on disk, in descriptor order; a rule-excluded or
\* missing library never appears.
C7_ClassPathContents ==
    ClassPathBuilt =>
       LET libs == LibraryEntriesOfClassPath IN
       /\ disk[JarFile] # "absent" =>
             (classPath # <<>> /\ Head(classPath) = JarFile)
       /\ \A k \in 1..Len(libs) :
             libs[k].kind = "lib" /\ libs[k].n \in 1..Len(libraries)
       /\ \A i \in 1..Len(libraries) :
             BelongsOnClassPath(i) <=>
                (\E k \in 1..Len(libs) : libs[k] = LibFile(i))
       /\ \A k, l \in 1..Len(libs) : k < l => libs[k].n < libs[l].n

\* a descriptor of two libraries that both belong on the classpath, behind
\* an existing version jar
C7_Witness ==
    /\ ClassPathBuilt
    /\ classPath = <<JarFile, LibFile(1), LibFile(2)>>
    /\ libraries[1].hasRules

(***************************************************************************)
(* C8: the legacy template                                                 *)
(***************************************************************************)
ArgsBuilt == pc \in {"Launching", "Running", "Closed"}

\* a word of the form ${...}
IsPlaceholder(word) == word \in TemplateWords \ {"--flag"}

\* C8: with a legacy template, no word of the game arguments is a ${...}
\* token: every placeholder occurrence has been replaced by its value.
C8_NoResidualPlaceholder ==
    (ArgsBuilt /\ minecraftArguments # <<>>) =>
        \A k \in 1..Len(gameArgs) : ~IsPlaceholder(gameArgs[k])

(***************************************************************************)
(* C9: the exit code                                                       *)
(***************************************************************************)
\* C9: once the child has exited with code c, the value the launch's promise
\* resolved with is c.
C9_ResultCarriesExitCode ==
    pc = "Closed" => result.value = exitCode

(***************************************************************************)
(* C10: the order of the phases                                            *)
(***************************************************************************)
\* the positions of launchMinecraft in the order the claim gives: discovery
\* with selection is one phase, classpath with argument building is one
\* phase, and the account check lies between the two
ClaimedRank ==
    [p \in {"Idle", "ResolvingManifest", "FetchingClientJar",
            "FetchingLibraries", "FetchingAssets", "ExtractingNatives",
            "DiscoveringRuntime", "SelectingRuntime", "AccountCheck",
            "BuildingClassPath", "BuildingArgs", "Launching", "Running",
            "Closed"} |->
        CASE p = "Idle" -> 0
          [] p = "ResolvingManifest" -> 1
          [] p = "FetchingClientJar" -> 2
          [] p = "FetchingLibraries" -> 3
          [] p = "FetchingAssets" -> 4
          [] p = "ExtractingNatives" -> 5
          [] p \in {"DiscoveringRuntime", "SelectingRuntime"} -> 6
          [] p = "AccountCheck" -> 7
          [] p \in {"BuildingClassPath", "BuildingArgs"} -> 8
          [] p = "Launching" -> 9
          [] p = "Running" -> 10
          [] OTHER -> 11]

\* the same with classpath building before the account check and argument
\* building after it
AmendedRank ==
    [p \in DOMAIN ClaimedRank |->
        CASE p = "BuildingClassPath" -> 7
          [] p = "AccountCheck" -> 8
          [] p = "BuildingArgs" -> 9
          [] p \in {"Launching", "Running", "Closed"} -> ClaimedRank[p] + 1
          [] OTHER -> ClaimedRank[p]]

\* a step that changes the position leaves a live phase, and either ends in
\* the error state or stays in the phase or enters the next one
ForwardBy(rank) ==
    pc' # pc =>
       /\ pc \notin {"Error", "Closed"}
       /\ \/ pc' = "Error"
          \/ rank[pc'] = rank[pc]
          \/ rank[pc'] = rank[pc] + 1

\* no step re-enters a position it has left
NoReentry(rank) ==
    (pc' # pc /\ pc' # "Error") => rank[pc'] >= rank[pc] /\
       (rank[pc'] = rank[pc] => pc' = "SelectingRuntime" \/ pc' = "BuildingArgs")

\* the child runs only when nothing before it was fatal
SpawnedAfterAll ==
    pc \in {"Launching", "Running"} =>
       /\ result = Pending
       /\ selectedJava # NoJava
       /\ account \in Accounts

FatalErrors ==
    {"ManifestError", "VersionNotFound", "DescriptorError", "DownloadError", "AssetIndexError",
     "TooManyAssetsFailed", "NoJavaFound", "NoCompatibleJava",
     "NoAccountSelected", "SpawnError"}

\* once the launch is in its error state no phase runs: the position, the
\* cache, the natives directory and the launch plan stay as they are, and the
\* only thing the child can still do is close after its error event
NothingAfterError ==
    pc = "Error" =>
       /\ pc' = "Error"
       /\ UNCHANGED <<disk, issued, nativesDir, classPath, account, gameArgs>>
       /\ child' # child => (child = "failed" /\ child' = "closed")

\* a settled promise keeps its settlement
SettledOnce == result.state # "pending" => result' = result

\* C11: a fatal error in any phase ends the launch: no later phase runs, no
\* process is spawned afterwards, and the result is settled exactly once, as
\* a failure, also when the child's error event is followed by its close
\* event.
C11_FatalErrorEndsLaunch ==
    /\ [][NothingAfterError /\ SettledOnce]_vars
    /\ [](pc = "Error" <=> result.state = "rejected")
    /\ [](result.state = "rejected" => result.error \in FatalErrors)

\* the child's error event was followed by its close event, whose handler
\* called resolve(): the result is still the failure
C11_Witness ==
    /\ pc = "Error"
    /\ child = "closed"
    /\ exitCode # <<>>
    /\ result = Rejected("SpawnError", 0, <<>>)

(***************************************************************************)
(* C12: success only after the exit                                        *)
(***************************************************************************)
\* C12: the launch result is resolved only after the spawned process has
\* closed; never while the child is running or when none was spawned.
C12_ResolvedOnlyAfterClose ==
    result.state = "resolved" => (child = "closed" /\ exitCode # <<>>)

\* the game ran and exited, and the launch resolved
C12_Witness ==
    /\ pc = "Closed"
    /\ result.state = "resolved"
    /\ child = "closed"

(***************************************************************************)
(* C13: the values delivered to the progress callback                      *)
(***************************************************************************)
\* a <= b for two progress values
Leq(a, b) == a[1] * b[2] <= b[1] * a[2]

InRange(a) == Leq(Whole(0), a) /\ Leq(a, Whole(100))

\* the last value delivered before a step, followed by the values the step
\* delivers
deliveredBy == progress \o reported'

\* C13: the values delivered to the progress callback during one launch are
\* non-decreasing and stay within 0..100, also when a library download reports
\* partial progress, fails, and is repeated from the next source.
C13_ProgressMonotone ==
    [][/\ \A i \in 1..Len(deliveredBy) : InRange(deliveredBy[i])
       /\ \A i \in 1..(Len(deliveredBy) - 1) :
             Leq(deliveredBy[i], deliveredBy[i + 1])]_vars

(***************************************************************************)
(* C14: the memory allocation of the request                               *)
(***************************************************************************)
\* the allocation r of the request: the one it carries, else the stored
\* preference (which the handler overwrites with r before the call)
configuredRam == or(requestRam, prefsRam).n

\* C14: for a launch-minecraft request with memory allocation r MB (the one
\* it carries, else the stored preference) the argument vector of the runtime
\* starts with the maximum-heap flag -Xmx{r}M.
C14_ConfiguredRamReachesXmx ==
    jvmArgs # <<>>
        => (jvmArgs[1].flag = "-Xmx" /\ jvmArgs[1].mb = configuredRam)

(***************************************************************************)
(* C15: no selected account                                                *)
(***************************************************************************)
\* the phases after the account check
AfterAccountCheck == {"BuildingArgs", "Launching", "Running", "Closed"}

\* C15: when the account provider reports no selected account the launch
\* ends with a fatal error and the runtime is never spawned, for the legacy
\* and for the modern argument format: the step of the account check that
\* finds no account rejects the launch, and without an account no later phase
\* is reached, no argument vector is built and no child exists.
C15_NoAccountNoSpawn ==
    /\ [][(pc = "AccountCheck" /\ pc' # pc /\ account' = NoAccount)
            => (pc' = "Error"
                /\ result' = Rejected("NoAccountSelected", 0, <<>>))]_vars
    /\ [](account = NoAccount
            => (/\ pc \notin AfterAccountCheck
                /\ child = "none"
                /\ jvmArgs = <<>>
                /\ gameArgs = <<>>))

\* the account check found no account, with a modern descriptor
C15_Witness ==
    /\ pc = "Error"
    /\ result = Rejected("NoAccountSelected", 0, <<>>)
    /\ account = NoAccount
    /\ minecraftArguments = <<>>
    /\ child = "none"

(***************************************************************************)
(* C16: manifest resolution                                                *)
(***************************************************************************)
\* the id looked up in the delivered manifest m
wantedId(m) == IF truthy(requestVersion) THEN requestVersion.s ELSE m.latest

\* the errors of manifest resolution
ResolutionErrors == {"ManifestError", "VersionNotFound", "DescriptorError"}

\* no phase after manifest resolution has acted
NoLaterPhase ==
    /\ pc = "Error"
    /\ requested = {}
    /\ libPos = 0
    /\ nativesDir \subseteq {Stale}
    /\ classPath = <<>>
    /\ child = "none"

\* C16: manifest resolution issues one manifest request and at most one
\* descriptor request per launch, with no retry; without a requested id the
\* manifest's latest release is looked up; an id absent from the manifest
\* fails with version-not-found, with no descriptor request and no later
\* phase; a failed request is fatal at once.
C16_ManifestResolution ==
    /\ [](/\ manifestRequests = (IF pc = "Idle" THEN 0 ELSE 1)
          /\ descriptorRequests <= 1)
    /\ [](manifest # <<>> =>
            IF wantedId(manifest[1]) \in manifest[1].ids
            THEN version = wantedId(manifest[1]) /\ descriptorRequests = 1
            ELSE /\ version = ""
                 /\ descriptorRequests = 0
                 /\ result = Rejected("VersionNotFound", 0, <<>>)
                 /\ NoLaterPhase)
    /\ []((result.state = "rejected" /\ result.error \in ResolutionErrors)
            => NoLaterPhase)
    /\ []((manifest = <<>> /\ pc # "Idle" /\ pc # "ResolvingManifest")
            => (/\ result = Rejected("ManifestError", 0, <<>>)
                /\ descriptorRequests = 0
                /\ NoLaterPhase))

\* no id was requested and the manifest does not list its own latest release:
\* the launch failed without a descriptor request
C16_Witness ==
    /\ ~truthy(requestVersion)
    /\ manifest # <<>>
    /\ manifest[1].latest \notin manifest[1].ids
    /\ result = Rejected("VersionNotFound", 0, <<>>)
    /\ manifestRequests = 1
    /\ descriptorRequests = 0

(***************************************************************************)
(* C17: the natives directory at spawn                                     *)
(***************************************************************************)
\* the archives extractNatives of this launch could extract
extractedNow ==
    {i \in nativeArchives : disk[NativeFile(i)] \in {"full", "wrong"}}

\* C17: whenever a runtime process is spawned the natives directory holds
\* only files extracted during the same launch; nothing an earlier launch
\* extracted survives.
C17_NativesFresh ==
    child # "none" => (Stale \notin nativesDir /\ nativesDir \subseteq extractedNow)

\* a launch that found every file on disk, as an earlier launch left them
\* together with its natives directory, has spawned the runtime with natives
\* extracted anew
C17_Witness ==
    /\ child = "running"
    /\ requested = {}
    /\ nativesDir # {}
    /\ Stale \notin nativesDir

(***************************************************************************)
(* C18: a library that no source delivers                                  *)
(***************************************************************************)
\* downloadFile was called for the file: it sent a request, or it found the
\* file on disk and returned
attempted(f) == f \in requested \/ downloadFileSkips(disk, f)

\* the libraries the loop of downloadLibraries has left behind
donePos == IF pc = "FetchingLibraries" THEN libPos ELSE Len(libraries) + 1

\* the step in which the last source of the current library fails is followed
\* by the native stage of the same library
FailureGoesToNative ==
    (LibWarning(libPos) \notin warnings /\ LibWarning(libPos) \in warnings')
        => (libPos' = libPos /\ libStage' = "native" /\ pc' = pc)

\* C18: a library whose main artifact no source delivers never aborts the
\* library phase: its native classifier for the platform is still fetched,
\* every later rule-eligible library is attempted, and the phase completes
\* without error so that asset synchronization starts.
C18_LibraryFailureTolerated ==
    /\ [][FailureGoesToNative]_vars
    /\ [](result = Pending /\ pc \in {"FetchingLibraries", "FetchingAssets"})
    /\ [](\A i \in 1..Len(libraries) :
            (shouldUseLibrary(libraries[i]) /\ i < donePos)
                => (/\ attempted(LibFile(i))
                    /\ hasNativeClassifier(libraries[i])
                         => attempted(NativeFile(i))))
    /\ <>(pc = "FetchingAssets")

\* the first of two libraries was delivered by no source; its native and the
\* second library were requested and the phase is over
C18_Witness ==
    /\ pc = "FetchingAssets"
    /\ Len(libraries) = 2
    /\ LibWarning(1) \in warnings
    /\ hasNativeClassifier(libraries[1])
    /\ NativeFile(1) \in requested
    /\ LibFile(2) \in requested
    /\ result = Pending

(***************************************************************************)
(* C19: the order of the sources                                           *)
(***************************************************************************)
\* the source a library starts with: 0 is the explicit URL, 1..NumRepos are
\* the mirrors in list order
startOf(i) ==
    IF i <= Len(libraries) /\ libraries[i].artifact THEN 0 ELSE 1

\* one step of the library loop
SourceOrderStep ==
    /\ Cardinality(issued') <= 1
    /\ issued' \subseteq {LibFile(libPos), NativeFile(libPos)}
    /\ libPos' >= libPos
    /\ libPos' # libPos
         => (libStage = "native" /\ libStage' = "main"
             /\ srcIdx' = startOf(libPos'))
    /\ (libPos' = libPos /\ srcIdx' # srcIdx)
         => (/\ srcIdx' = srcIdx + 1
             /\ libStage = "main" /\ libStage' = "main"
             /\ issued' = {LibFile(libPos)}
             /\ disk'[LibFile(libPos)] = "absent")
    /\ (libStage = "main" /\ libStage' = "native")
         => \/ disk'[LibFile(libPos)] # "absent"
            \/ (srcIdx = NumRepos /\ LibWarning(libPos) \in warnings')
    /\ libStage = "native" => LibFile(libPos) \notin issued'

\* C19: the sources of a rule-eligible library are tried one at a time, the
\* explicit URL first when present, then the mirrors in list order; a later
\* source is tried only after the previous one failed, none after a success;
\* libraries are processed one at a time.
C19_SourcesInOrder ==
    /\ [][SourceOrderStep]_vars
    /\ [](pc = "FetchingLibraries" /\ libPos <= Len(libraries)
            => (startOf(libPos) <= srcIdx /\ srcIdx <= NumRepos))

\* the explicit URL and the first mirror failed, the second mirror delivered
\* the file
C19_Witness ==
    /\ pc = "FetchingLibraries"
    /\ libPos <= Len(libraries)
    /\ libraries[libPos].artifact
    /\ libStage = "native"
    /\ srcIdx = 2
    /\ LibFile(libPos) \in issued
    /\ disk[LibFile(libPos)] = "full"

(***************************************************************************)
(* C20: asset batches                                                      *)
(***************************************************************************)
\* the tasks that were started and have neither succeeded nor failed for good
inFlight == {k \in 1..Len(tasks) : tasks[k].st \in {"request", "backoff"}}

\* the batch of the k-th object entry (line 319: i += batchSize)
batchOf(k) == (k - 1) \div batchSize

\* C20: at most 10 object tasks are in flight at any moment, and no task of a
\* later batch has started while a task of an earlier batch is unfinished.
C20_BatchesOfTen ==
    /\ Cardinality(inFlight) <= batchSize
    /\ \A j, k \in 1..Len(tasks) :
          (batchOf(j) < batchOf(k) /\ tasks[k] # NotStarted)
              => Settled(tasks[j])

\* the first batch downloaded an object and is finished; a task of the second
\* batch is waiting for its response
C20_Witness ==
    /\ \E j \in 1..Len(tasks) :
          batchOf(j) = 0 /\ ObjectFile(objects[j]) \in requested
    /\ \E k \in inFlight : batchOf(k) = 1

(***************************************************************************)
(* C21: the attempts of one asset object                                   *)
(***************************************************************************)
\* task k changes in the step
taskMoves(k) == k <= Len(tasks') /\ tasks'[k] # tasks[k]

\* an attempt of task k is counted as failed in the step
attemptCounted(k) == taskMoves(k) /\ tasks'[k].st \in {"backoff", "failed"}

\* C21: an object that is not on disk with its declared size is counted as
\* failed only after 3 fetch attempts were made and each failed, is counted
\* as completed as soon as one attempt leaves a file of the declared size,
\* and gets at most 3 attempts; also when a file of a wrong, non-zero size is
\* on disk at the start. Every attempt that is counted as failed was a
\* request to the asset endpoint that has ended.
C21_FailedAfterThreeFetches ==
    [][\A k \in 1..Len(tasks) :
          /\ attemptCounted(k)
               => (/\ tasks[k].st = "request"
                   /\ tasks[k].attempt = tasks'[k].attempt
                   /\ disk'[ObjectFile(objects[k])] = "absent")
          /\ (taskMoves(k) /\ tasks'[k].st = "failed")
               => tasks'[k].attempt = maxRetries - 1
          /\ (taskMoves(k) /\ tasks'[k].st = "done")
               => disk'[ObjectFile(objects[k])] = "full"
          /\ taskMoves(k) => tasks'[k].attempt < maxRetries]_vars

(***************************************************************************)
(* C22: a native archive that cannot be extracted                          *)
(***************************************************************************)
\* the rule-eligible libraries with a native classifier for the platform
nativeLibraries ==
    {i \in 1..Len(libraries) :
        shouldUseLibrary(libraries[i]) /\ hasNativeClassifier(libraries[i])}

\* C22: an archive that is missing or cannot be opened does not abort native
\* extraction: every rule-eligible library with a native classifier for the
\* platform whose archive holds the declared content is extracted, whatever
\* happened to the archives before it, and the launch goes on to runtime
\* discovery.
C22_ExtractionGoesOn ==
    pc # "ExtractingNatives"
        => (/\ pc = "DiscoveringRuntime"
            /\ result = Pending
            /\ \A i \in nativeLibraries :
                  disk[NativeFile(i)] = "full" => i \in nativesDir
            /\ \A i \in nativesDir :
                  i \in nativeLibraries
                    /\ disk[NativeFile(i)] \in {"wrong", "full"})

\* the archive of the first library is empty and was not extracted, the
\* archive of the second was
C22_Witness ==
    /\ pc = "DiscoveringRuntime"
    /\ nativeLibraries = {1, 2}
    /\ disk[NativeFile(1)] = "empty"
    /\ nativesDir = {2}

(***************************************************************************)
(* C23: the argument vector                                                *)
(***************************************************************************)
\* the texts of the elements of an argument vector from position i on
flagsFrom(v, i) == [k \in 1..(Len(v) - i + 1) |-> v[k + i - 1].flag]

\* C23: for every allocation r that reaches the argument builder the vector
\* begins with -Xmx{r}M, -Xms{floor(r/2)}M and the native-library-path flag
\* for the natives directory, followed by the classpath option, the main class
\* and the game arguments; the minimum heap never exceeds the maximum heap.
C23_ArgumentVector ==
    jvmArgs # <<>>
        => LET r == ramAllocation.n IN
           /\ Len(jvmArgs) = 6 + Len(gameArgs)
           /\ jvmArgs[1] = Arg("-Xmx", r, <<>>)
           /\ jvmArgs[2].flag = "-Xms"
           /\ 2 * jvmArgs[2].mb <= r
           /\ r < 2 * jvmArgs[2].mb + 2
           /\ jvmArgs[2].mb <= jvmArgs[1].mb
           /\ jvmArgs[3] = Arg("-Djava.library.path=", 0, <<NATIVES_DIR>>)
           /\ jvmArgs[4].flag = "-cp"
           /\ jvmArgs[5].words = classPath
           /\ jvmArgs[6].flag = MainClass
           /\ flagsFrom(jvmArgs, 7) = gameArgs

\* an odd allocation: the minimum heap is rounded down
C23_Witness ==
    /\ pc = "Launching"
    /\ jvmArgs # <<>>
    /\ jvmArgs[1].mb = 4097
    /\ jvmArgs[2].mb = 2048
    /\ Len(jvmArgs) > 6

(***************************************************************************)
(* C24: the required Java major                                            *)
(***************************************************************************)
\* the descriptor has arrived
DescriptorArrived == requiredJavaVersion # 0

\* the descriptor names its major: a number, or an object with majorVersion
explicitMajor ==
    versionData.javaVersion.t \in {"number", "object"}
      /\ versionData.javaVersion.n # 0

\* the oldest ids: snapshots of years before 2021, releases below 1.12, and
\* ids that are neither a snapshot (two digits and w) nor a release (1.N)
oldestId(id) ==
    \/ yearMatch(id) /\ digitsFrom(id, 1, 0) < 21
    \/ versionMatch(id) /\ digitsFrom(id, 3, 0) < 12
    \/ ~yearMatch(id) /\ ~versionMatch(id)

\* C24: the required Java major is the descriptor's explicit field when
\* present; when absent, the oldest version ids (releases below 1.12, ids
\* matching no pattern, snapshots of years before 2021) get the lowest
\* supported major, 8.
C24_RequiredMajor ==
    DescriptorArrived =>
        /\ explicitMajor => requiredJavaVersion = versionData.javaVersion.n
        /\ (versionData.javaVersion = Undefined /\ oldestId(versionData.id))
              => requiredJavaVersion = 8

(***************************************************************************)
(* Claims on runtime discovery                                             *)
(***************************************************************************)
\* the discovery step of the launch has run: uniqueJava is the list handed to
\* selectBestJavaForVersion (line 1017)
DiscoveryDone == pc # "DiscoveringRuntime"

\* the paths the bundled scan reported
bundledPaths == {builtInFolders[i].path : i \in 1..Len(builtInFolders)}

\* C25: the candidate list handed to runtime selection never holds two entries
\* with the same executable path, whichever scans reported the path.
C25_DistinctPaths ==
    DiscoveryDone =>
        \A i, k \in 1..Len(uniqueJava) :
            i # k => uniqueJava[i].path # uniqueJava[k].path

\* C25 witness: one path reported by the bundled scan and by the system scan
\* stands once in the list handed to selection
C25_Witness ==
    /\ DiscoveryDone
    /\ \E i, k \in 1..Len(availableJava) :
          /\ i # k
          /\ availableJava[i].path = availableJava[k].path
          /\ availableJava[i].origin = "builtIn"
          /\ availableJava[k].origin = "system"
          /\ Cardinality({u \in 1..Len(uniqueJava) :
                            uniqueJava[u].path = availableJava[i].path}) = 1

\* C26 as stated: every candidate handed to runtime selection, bundled ones
\* included, has been probed: its executable answered the version query and
\* its major is the one parsed from the answer; no candidate whose probe fails
\* is in the list.
C26_EveryCandidateProbed ==
    DiscoveryDone =>
        \A i \in 1..Len(uniqueJava) :
            /\ getJavaVersion(uniqueJava[i].path) # ProbeFailed
            /\ uniqueJava[i].version = getJavaVersion(uniqueJava[i].path)

(***************************************************************************)
(* Claims on the order of the candidates                                   *)
(***************************************************************************)
\* the position of the first candidate with the major v
firstOfMajor(v) ==
    CHOOSE i \in 1..Len(uniqueJava) :
        /\ uniqueJava[i].version = v
        /\ \A k \in 1..(i - 1) : uniqueJava[k].version # v

\* the major the selection rule chooses from a set of majors: the required one
\* if present, otherwise the smallest one above it
chosenMajor(majors) ==
    IF requiredJavaVersion \in majors THEN requiredJavaVersion
    ELSE MinOf({v \in majors : v >= requiredJavaVersion})

\* C30: of the candidates with the major the rule chooses, the earliest in the
\* list is returned; the paths of the bundled scan stand before the paths only
\* the system scan reported, so a candidate at a bundled path wins over a
\* system one of the same major; the selected major is a function of the set
\* of candidate majors, the same for every order of the list.
C30_EarliestOfChosenMajor ==
    (SelectionDone /\ selectedJava # NoJava) =>
        /\ selectedJava = uniqueJava[firstOfMajor(selectedJava.version)]
        /\ (\E i \in 1..Len(uniqueJava) :
                /\ uniqueJava[i].path \in bundledPaths
                /\ uniqueJava[i].version = selectedJava.version)
           => selectedJava.path \in bundledPaths
        /\ selectedJava.version = chosenMajor(CandidateMajors)

\* C30 witness: no candidate has the required major, the smallest major above
\* it is carried by a bundled candidate and by a system candidate, and the
\* bundled one is selected
C30_Witness ==
    /\ SelectionDone
    /\ requiredJavaVersion \notin CandidateMajors
    /\ selectedJava # NoJava
    /\ selectedJava.origin = "builtIn"
    /\ \E i \in 1..Len(uniqueJava) :
          /\ uniqueJava[i].origin = "system"
          /\ uniqueJava[i].version = selectedJava.version

(***************************************************************************)
(* C27: the cache tree after a fatal error                                 *)
(***************************************************************************)
\* file f is on disk before the step and not after it
removed(f) == disk[f] # "absent" /\ disk'[f] = "absent"

\* the step holds a failed download of f: a downloadFile call for f that sent
\* its request in this step, or an attempt of an asset task for f that the
\* step counts as failed
ownDownloadFailed(f) ==
    \/ f.kind # "obj" /\ f \in issued'
    \/ \E k \in 1..Len(tasks) : f = ObjectFile(objects[k]) /\ attemptCounted(k)

\* C27: no step of a launch, the step that ends it with a fatal error
\* included, takes away a file that is on disk with its declared content,
\* whether this launch or an earlier one downloaded it; a file that a step
\* removes is the file whose own download failed in that step.
C27_NoRollback ==
    [][\A f \in Files :
          /\ disk[f] = "full" => disk'[f] = "full"
          /\ removed(f) => ownDownloadFailed(f)]_vars

\* C27 witness: the launch ended with a download error after it had fetched
\* a file completely; that file is on disk and a file it also asked for is not
C27_Witness ==
    /\ pc = "Error"
    /\ result.error \in {"DownloadError", "AssetIndexError", "TooManyAssetsFailed"}
    /\ \E f, g \in requested :
          /\ disk[f] = "full"
          /\ disk[g] = "absent"

(***************************************************************************)
(* C28: the lifecycle signals of one request                               *)
(***************************************************************************)
\* C28: the signals of a request are game-started, then game-closed, each
\* once: game-started is sent as soon as the launch has begun, whatever phase
\* it fails in later; game-closed is sent only when the launch result has
\* settled, and a settled launch never leaves the handler unable to send it;
\* the reply is returned only after game-closed and reports success for a
\* resolved launch and the error for a rejected one.
C28_StartedThenClosed ==
    /\ sent \in {<<>>, <<"game-started">>, <<"game-started", "game-closed">>}
    /\ pc # "Idle" => sent # <<>>
    /\ Len(sent) = 2 => result.state # "pending"
    /\ (result.state # "pending" /\ reply = <<>>) => ENABLED HandlerSettles
    /\ reply # <<>> =>
          /\ sent = <<"game-started", "game-closed">>
          /\ reply[1].success = (result.state = "resolved")
          /\ ~reply[1].success => reply[1].error = result.error

\* C28 witness: a launch that failed while downloading has sent both signals
\* and replied with the failure
C28_Witness ==
    /\ pc = "Error"
    /\ result.error = "DownloadError"
    /\ sent = <<"game-started", "game-closed">>
    /\ reply = <<[success |-> FALSE, error |-> "DownloadError"]>>

(***************************************************************************)
(* C29: two launches at once                                               *)
(***************************************************************************)
\* the launch of the earlier request has not ended
EarlierInProgress == earlier \in {"downloading", "extracted", "running"}

\* C29: while the launch of an earlier request is downloading or its game
\* process runs, a second request is served at once (the handler starts its
\* launch, nothing rejects or queues it), the second launch takes its
\* extractNatives step whatever the position of the earlier one, and that
\* step removes what the earlier launch extracted into the shared natives
\* directory and leaves the earlier launch where it is.
C29_NoMutualExclusion ==
    [][EarlierInProgress =>
          /\ pc = "Idle" => ENABLED StartLaunch
          /\ pc = "ExtractingNatives" => ENABLED ExtractNatives
          /\ (pc = "ExtractingNatives" /\ pc' = "DiscoveringRuntime")
                => (/\ Stale \notin nativesDir'
                    /\ earlier' = earlier
                    /\ reply' = <<>>)]_vars

\* C29 witness: the game process of the earlier launch runs and the second
\* launch, started meanwhile, has removed and rebuilt the natives directory
C29_Witness ==
    /\ earlier = "running"
    /\ pc = "DiscoveringRuntime"
    /\ sent = <<"game-started">>
    /\ nativesDir = {1}

(***************************************************************************)
(* C31: files that exist with a size other than the declared one           *)
(***************************************************************************)
\* the launch is in one of its download phases
Fetching == pc \in {"FetchingClientJar", "FetchingLibraries", "FetchingAssets"}

\* f is an entry of the class path
onClassPath(cp, f) == \E n \in 1..Len(cp) : cp[n] = f

\* C31: no step sends a request for a file that exists with a size above
\* zero; a client jar or library file with a non-zero size other than the
\* declared one is left as it is, no request is sent for it, and
\* buildClassPath puts it on the class path like a complete file.
C31_NonEmptyFileNeverFetched ==
    [][/\ Fetching => \A f \in issued' : disk[f] \in {"absent", "empty"}
       /\ \A f \in Files :
             (f.kind \in {"jar", "lib"} /\ disk[f] = "wrong")
                => (disk'[f] = "wrong" /\ (Fetching => f \notin issued'))
       /\ (pc = "BuildingClassPath" /\ pc' # pc) =>
             /\ disk[JarFile] = "wrong" => onClassPath(classPath', JarFile)
             /\ \A i \in 1..Len(libraries) :
                   (BelongsOnClassPath(i) /\ disk[LibFile(i)] = "wrong")
                      => onClassPath(classPath', LibFile(i))]_vars

\* C31 witness: a launch found a jar and a library file that an earlier run
\* had left incomplete, asked for neither and put both on the class path
C31_Witness ==
    /\ ClassPathBuilt
    /\ disk[JarFile] = "wrong"
    /\ JarFile \notin requested
    /\ onClassPath(classPath, JarFile)
    /\ \E i \in 1..Len(libraries) :
          /\ disk[LibFile(i)] = "wrong"
          /\ LibFile(i) \notin requested
          /\ onClassPath(classPath, LibFile(i))

(***************************************************************************)
(* C32: the tasks of one batch and their files                             *)
(***************************************************************************)
\* task k has opened its write stream and its request has not ended
writing(k) == tasks[k].st = "request"

\* C32 as stated: no two tasks of the asset synchronization are writing the
\* same object file at the same time, also when two entries of the index in
\* one batch carry the same hash; so no task deletes or size-checks a file
\* that another task is still writing.
C32_OneWriterPerFile ==
    \A k, j \in 1..Len(tasks) :
        (k # j /\ writing(k) /\ writing(j))
            => ObjectFile(objects[k]) # ObjectFile(objects[j])

(***************************************************************************)
(* C33: the inferred major along the release versions                      *)
(***************************************************************************)
\* the id is a release id 1.a or 1.a.b
releaseId(id) ==
    versionMatch(id) /\ ~\E i \in 1..Len(id) : id[i] = "w"

\* a of 1.a.b
minorOf(id) == digitsFrom(id, 3, 0)

\* b of 1.a.b, 0 for 1.a
patchOf(id) ==
    LET p == IF minorOf(id) >= 10 THEN 5 ELSE 4
    IN  IF Len(id) > p /\ id[p] = "." THEN digitsFrom(id, p + 1, 0) ELSE 0

\* (a, b) of x is at most (c, d) of y
notLater(x, y) ==
    \/ minorOf(x) < minorOf(y)
    \/ minorOf(x) = minorOf(y) /\ patchOf(x) <= patchOf(y)

\* the major inferred for an id whose descriptor has no javaVersion field
inferred(id) == getRequiredJavaVersion([javaVersion |-> Undefined, id |-> id])

\* C33 as stated: when the descriptor has no javaVersion field and a release
\* id, the inferred major is at least the major inferred for every release
\* that is not later, and a release 1.N with N >= 21 gets at least 21.
C33_InferredMajorMonotone ==
    (/\ DescriptorArrived
     /\ versionData.javaVersion = Undefined
     /\ releaseId(versionData.id))
        => /\ \A y \in VersionIds :
                 (releaseId(y) /\ notLater(y, versionData.id))
                     => inferred(y) <= requiredJavaVersion
           /\ minorOf(versionData.id) >= 21 => requiredJavaVersion >= 21

(***************************************************************************)
(* C34: the values of a legacy template in the game arguments              *)
(***************************************************************************)
\* word k of the template is the first occurrence of the n-th placeholder of
\* the chain
firstOccurrence(k, n) ==
    /\ minecraftArguments[k] = HandledPlaceholders[n]
    /\ \A j \in 1..(k - 1) : minecraftArguments[j] # HandledPlaceholders[n]

\* C34 as stated: in a launch with a legacy template the game arguments are
\* as many as the words of the template, and the value substituted for a
\* placeholder is one element, at the placeholder's position (directly after
\* its flag), also when the value contains a space.
C34_OneElementPerValue ==
    (ArgsBuilt /\ minecraftArguments # <<>>)
        => /\ Len(gameArgs) = Len(minecraftArguments)
           /\ \A k \in 1..Len(minecraftArguments) :
                 \A n \in 1..Len(HandledPlaceholders) :
                    firstOccurrence(k, n)
                       => gameArgs[k] = valueOf(HandledPlaceholders[n], account)

====
